---- MODULE Spec2Model ----
(***************************************************************************)
(* QuantStream: model of the real-time pipeline                            *)
(*   BinanceWebSocketClient  (app/ingestion/binance_ws.py)                 *)
(*   IngestionManager        (app/ingestion/manager.py)                    *)
(*   ResamplingEngine        (app/analytics/resampling.py)                 *)
(*   AlertEngine             (app/alerts/alert_engine.py)                  *)
(*   Analytics functions     (app/analytics/)                              *)
(*   Database / RedisCache   (app/storage/database.py, redis_client.py)    *)
(*                                                                         *)
(* Every coroutine is cut at its await points: the code between two awaits *)
(* runs atomically on the asyncio loop and is one action.  Time is in      *)
(* whole seconds since the Unix epoch.                                     *)
(***************************************************************************)
EXTENDS Integers, Sequences, FiniteSets, TLC

\* ------------------------------------------------------------------ bounds
\* Ticks the feed delivers in one run.
MaxTicks == 2
\* Clock advances in one run.
MaxClock == 3
\* Process restarts (fresh engines over the same storage) in one run.
MaxRestarts == 1
\* Storage / cache / network failures injected in one run.
MaxFaults == 1
\* Connection tasks created in one run.
MaxTasks == 2
\* Resampling tasks created in one run.
MaxRTasks == 3
\* Triggers fired in a run of the alert engine.
MaxTriggers == 3
\* Connection failures in a run that exercises the reconnect delay.
MaxFailures == 9
\* Alert definitions created in one run.
MaxAlerts == 2
\* The largest limit a consumer passes to get_recent_triggers.
MaxLimit == 4
\* Triggers fired in a run that fills the trigger list.
MaxFirings == 102

\* --------------------------------------------------------------- constants
SecondsPerDay == 24 * 3600
None == "None"
\* dict.get('timestamp') on an empty entry: no timestamp.
NoTimestamp == 0 - 1
ValueError == "ValueError"

\* A timeframe string is the sequence of its characters.
Digits == <<"0", "1", "2", "3", "4", "5", "6", "7", "8", "9">>
IsDigit(c) == \E i \in 1..10 : Digits[i] = c
DigitVal(c) == (CHOOSE i \in 1..10 : Digits[i] = c) - 1

\* config.py: RESAMPLE_INTERVALS = ["1s", "1m", "5m"]
RESAMPLE_INTERVALS == << <<"1", "s">>, <<"1", "m">>, <<"5", "m">> >>

\* int(s) of a decimal string without sign; ValueError when s is not one.
RECURSIVE IntOf(_)
IntOf(s) ==
    IF Len(s) = 0 THEN 0
    ELSE IntOf(SubSeq(s, 1, Len(s) - 1)) * 10 + DigitVal(s[Len(s)])

IsInt(s) == Len(s) > 0 /\ \A i \in 1..Len(s) : IsDigit(s[i])

\* ResamplingEngine._parse_timeframe: the duration in seconds, or ValueError.
ParseTimeframe(timeframe) ==
    IF Len(timeframe) = 0 \/ ~IsInt(SubSeq(timeframe, 1, Len(timeframe) - 1))
    THEN ValueError
    ELSE LET unit == timeframe[Len(timeframe)]
             value == IntOf(SubSeq(timeframe, 1, Len(timeframe) - 1))
         IN  CASE unit = "s" -> value
               [] unit = "m" -> value * 60
               [] unit = "h" -> value * 3600
               [] OTHER -> ValueError

\* int(x / y) for x >= 0, y > 0 truncates, which is the floor there.
\* ResamplingEngine._get_candle_timestamp: floor to the candle boundary,
\* counted from datetime(1970, 1, 1).
GetCandleTimestamp(timestamp, timeframe) ==
    LET candle_seconds == ParseTimeframe(timeframe)
        seconds_since_epoch == timestamp
    IN  (seconds_since_epoch \div candle_seconds) * candle_seconds

\* ------------------------------------------------------- pandas resample
\* df[...].resample(timeframe) reads the string as a pandas offset alias,
\* not through _parse_timeframe: "s" is Second, "h" is Hour, and "m" is
\* upper-cased by the alias lookup to "M", MonthEnd.  Second and Hour bins
\* are left-closed, left-labelled and anchored at midnight of the first
\* timestamp's day (origin='start_day'); MonthEnd bins are right-closed and
\* labelled by midnight of the bin's last day.

\* The proleptic Gregorian calendar of datetime: days since 1970-01-01 of a
\* civil date and back, by the era of 400 years (yy counts years from
\* March, mp months from March).
DaysFromMarchYear(yy, mp, d) ==
    (yy \div 400) * 146097
        + (yy % 400) * 365 + (yy % 400) \div 4 - (yy % 400) \div 100
        + (153 * mp + 2) \div 5 + d - 1 - 719468

DaysFromCivil(y, m, d) ==
    DaysFromMarchYear(IF m <= 2 THEN y - 1 ELSE y, IF m > 2 THEN m - 3 ELSE m + 9, d)

CivilOfMonth(era, yoe, doy, mp) ==
    [year |-> yoe + era * 400 + (IF mp < 10 THEN 0 ELSE 1),
     month |-> IF mp < 10 THEN mp + 3 ELSE mp - 9,
     day |-> doy - (153 * mp + 2) \div 5 + 1]

CivilOfDayOfYear(era, yoe, doy) == CivilOfMonth(era, yoe, doy, (5 * doy + 2) \div 153)

CivilOfYearOfEra(era, doe, yoe) ==
    CivilOfDayOfYear(era, yoe, doe - (365 * yoe + yoe \div 4 - yoe \div 100))

CivilOfDayOfEra(era, doe) ==
    CivilOfYearOfEra(era, doe,
        (doe - doe \div 1460 + doe \div 36524 - doe \div 146096) \div 365)

CivilFromDays(z) ==
    CivilOfDayOfEra((z + 719468) \div 146097, (z + 719468) % 146097)

\* Months since January 1970 of a civil date, and of the month holding
\* second t.
MonthsSince1970(c) == (c.year - 1970) * 12 + (c.month - 1)
MonthIndex(t) == MonthsSince1970(CivilFromDays(t \div SecondsPerDay))

\* Midnight of the last day of month number mi (MonthEnd's label).
MonthEndOf(mi) ==
    (DaysFromCivil(1970 + ((mi + 1) \div 12), ((mi + 1) % 12) + 1, 1) - 1) * SecondsPerDay

\* The pandas offset of a timeframe string: its unit as pandas reads it and
\* its multiple.
PandasOffset(timeframe) ==
    LET unit == timeframe[Len(timeframe)]
        n == IntOf(SubSeq(timeframe, 1, Len(timeframe) - 1))
    IN  CASE unit = "s" -> [kind |-> "Second", n |-> n, secs |-> n]
          [] unit = "h" -> [kind |-> "Hour", n |-> n, secs |-> n * 3600]
          [] unit = "m" -> [kind |-> "MonthEnd", n |-> n, secs |-> 0]
          [] OTHER -> [kind |-> ValueError, n |-> 0, secs |-> 0]

\* The label of the bin that holds timestamp t when the earliest timestamp
\* of the resampled frame is first.
ResampleLabel(t, first, timeframe) ==
    LET off == PandasOffset(timeframe)
    IN  IF off.kind = "MonthEnd"
        THEN LET m0 == MonthIndex(first)
                 k == (MonthIndex(t) - m0 + off.n - 1) \div off.n
             IN  MonthEndOf(m0 + k * off.n)
        ELSE LET origin == (first \div SecondsPerDay) * SecondsPerDay
             IN  origin + ((t - origin) \div off.secs) * off.secs

\* ------------------------------------------------------------------ state
\* config.py: DEFAULT_SYMBOLS = "btcusdt,ethusdt" (settings.symbols_list)
symbols_list == <<"btcusdt", "ethusdt">>
AllSymbols == {symbols_list[i] : i \in 1..Len(symbols_list)}

\* redis_client.py: push_tick(max_size=1000), expire(key, 3600);
\* resampling.py: get_recent_ticks(count=1000), get_ticks(limit=1000),
\* timedelta(hours=1); binance_ws.py: reconnect delays.
CACHE_MAX_SIZE == 1000
CACHE_TTL == 3600
RESAMPLE_TICK_COUNT == 1000
RESAMPLE_LOOKBACK == 3600
INITIAL_RECONNECT_DELAY == 1
MAX_RECONNECT_DELAY == 60

\* Trade prices the feed may send, and the clock's steps (seconds).
BasePrice == 100
Prices == {BasePrice, BasePrice + 1}
ClockSteps == {1}
\* The first observed instant: 1970-01-31 23:59:58 UTC.
StartNow == 31 * SecondsPerDay - 2

VARIABLES
    now,            \* datetime.utcnow(), seconds since the epoch
    tzOffset,       \* host's local time minus UTC (datetime.fromtimestamp)
    redisEnabled,   \* cache.enabled and cache.client is set
    delivered,      \* trade messages received so far
    faults,         \* injected I/O failures so far
    clockSteps,     \* clock advances so far
    restarts,       \* process restarts so far
    limits,         \* how many failures and triggers this run may see
    symbolsCfg,     \* settings.symbols_list of this deployment
    intervalsCfg, \* settings.RESAMPLE_INTERVALS of this deployment
    wsRunning,      \* BinanceWebSocketClient.running
    wsSymbols,      \* BinanceWebSocketClient.symbols
    wsTasks,        \* BinanceWebSocketClient.tasks (ids into tasks)
    tasks,          \* every _connect_symbol task the loop has created
    connections,    \* BinanceWebSocketClient.connections: symbol -> ws owner
    mgrRunning,     \* IngestionManager.running
    mgrSymbols,     \* IngestionManager.symbols
    tickBuffer,     \* IngestionManager.tick_buffer, keys in insertion order
    batch,          \* IngestionManager.batch_task (_batch_insert_loop)
    mgrStop,        \* the running IngestionManager.stop() coroutine
    dbTicks,        \* storage: rows of table ticks
    dbOhlc,         \* storage: rows of table ohlc
    dbAlerts,       \* storage: rows of table alerts
    cacheTicks,     \* Redis list ticks:<symbol>, newest first
    cacheExpiry,    \* Redis key expiry instant of ticks:<symbol>
    rsRunning,      \* ResamplingEngine.running
    rsTasks,        \* ResamplingEngine.tasks (ids into rtasks)
    rtasks,         \* every _resample_symbol_timeframe task created
    currentCandles, \* ResamplingEngine.current_candles: key -> timestamp
    rsStop,         \* the running ResamplingEngine.stop() coroutine
    alRunning,      \* AlertEngine.running
    alTask,         \* AlertEngine.evaluation_task (_evaluation_loop)
    triggeredAlerts,\* AlertEngine.triggered_alerts
    alStop,         \* the running AlertEngine.stop() coroutine
    sinceFlush,     \* history: ticks accepted since the last periodic clear
    retained,       \* history: ticks of a failed periodic insert, not yet stored
    written,        \* history: candle upserts made in this process run, per key
    idleStops,      \* history: components whose stop() was called while stopped,
                    \* since their last start
    fired,          \* history: every trigger appended in this process run
    apiResult       \* what the last call made by a consumer returned

envVars == <<now, tzOffset, redisEnabled, symbolsCfg, intervalsCfg, limits, delivered, faults, clockSteps, restarts>>
wsVars == <<wsRunning, wsSymbols, wsTasks, tasks, connections>>
mgrVars == <<mgrRunning, mgrSymbols, tickBuffer, batch, mgrStop>>
dbVars == <<dbTicks, dbOhlc, dbAlerts>>
cacheVars == <<cacheTicks, cacheExpiry>>
rsVars == <<rsRunning, rsTasks, rtasks, currentCandles, rsStop>>
alVars == <<alRunning, alTask, triggeredAlerts, alStop>>
histVars == <<sinceFlush, retained, written, idleStops, fired, apiResult>>
progVars == <<wsVars, mgrVars, dbVars, cacheVars, rsVars, alVars>>
vars == <<envVars, progVars, histVars>>

Min(a, b) == IF a <= b THEN a ELSE b
Range(s) == {s[i] : i \in 1..Len(s)}
Keys == {<<s, RESAMPLE_INTERVALS[j]>> : s \in AllSymbols, j \in 1..Len(RESAMPLE_INTERVALS)}

\* BinanceWebSocketClient.__init__, IngestionManager.__init__,
\* ResamplingEngine.__init__, AlertEngine.__init__, RedisCache.__init__ and
\* an initialised empty database.
\* No consumer has called yet.
NoResult == [call |-> "none", arg |-> 0, value |-> <<>>]
\* erred: the cycle a periodic task last ran ended in its except branch.
NoTask == [pc |-> "none", all_ticks |-> <<>>, cancel |-> FALSE, erred |-> FALSE]
NoStop == [pc |-> "idle", caller |-> None, toClose |-> <<>>, all_ticks |-> <<>>,
           result |-> None, seen |-> {}]

InitMemory ==
    /\ wsRunning = FALSE
    /\ wsSymbols = symbolsCfg
    /\ wsTasks = <<>>
    /\ tasks = <<>>
    /\ connections = [s \in AllSymbols |-> 0]
    /\ mgrRunning = FALSE
    /\ mgrSymbols = symbolsCfg
    /\ tickBuffer = <<>>
    /\ batch = NoTask
    /\ mgrStop = NoStop
    /\ rsRunning = FALSE
    /\ rsTasks = <<>>
    /\ rtasks = <<>>
    /\ currentCandles = [k \in Keys |-> NoTimestamp]
    /\ rsStop = "idle"
    /\ alRunning = FALSE
    /\ alTask = NoTask
    /\ triggeredAlerts = <<>>
    /\ alStop = "idle"

\* offsets: the UTC offsets, in seconds, of the hosts the process may run on.
\* earlier: the ticks of the first instrument, oldest first, that an earlier
\* run of the process left in storage and in the cache server.
\* candles: the rows that run left in the OHLC table.
InitStored(syms, intervals, redis, lim, offsets, earlier, candles) ==
    /\ now = StartNow
    /\ tzOffset \in offsets
    /\ redisEnabled \in redis
    /\ symbolsCfg = syms
    /\ intervalsCfg = intervals
    /\ delivered = 0
    /\ faults = 0
    /\ clockSteps = 0
    /\ restarts = 0
    /\ limits = lim
    /\ InitMemory
    /\ dbTicks = earlier
    /\ dbOhlc = candles
    /\ dbAlerts = <<>>
    /\ cacheTicks = [s \in AllSymbols |->
                        IF s = syms[1]
                        THEN [j \in 1..Min(Len(earlier), CACHE_MAX_SIZE) |->
                                earlier[Len(earlier) + 1 - j]]
                        ELSE <<>>]
    /\ cacheExpiry = [s \in AllSymbols |->
                        IF s = syms[1] /\ earlier # <<>> THEN StartNow + CACHE_TTL ELSE 0]
    /\ sinceFlush = {}
    /\ retained = {}
    /\ written = [k \in Keys |-> <<>>]
    /\ idleStops = {}
    /\ fired = <<>>
    /\ apiResult = NoResult

\* An OHLC table that is empty.
InitOver(syms, intervals, redis, lim, offsets, earlier) ==
    InitStored(syms, intervals, redis, lim, offsets, earlier, <<>>)

\* A first run: storage and cache are empty.
InitHost(syms, intervals, redis, lim, offsets) ==
    InitOver(syms, intervals, redis, lim, offsets, <<>>)

\* A host whose local time zone is UTC.
InitEnv(syms, intervals, redis, lim) == InitHost(syms, intervals, redis, lim, {0})

\* A run that sees at most MaxFaults failures and MaxTriggers triggers.
DefaultLimits == [faults |-> MaxFaults, triggers |-> MaxTriggers]
InitWith(syms, intervals, redis) == InitEnv(syms, intervals, redis, DefaultLimits)

\* The default deployment, with the cache server on or off, and one that
\* tracks a single instrument, resamples it at the first two timeframes and
\* has the cache on (Settings fields are read from the environment).
Init == InitWith(symbols_list, RESAMPLE_INTERVALS, BOOLEAN)
InitOne == InitWith(<<symbols_list[1]>>, SubSeq(RESAMPLE_INTERVALS, 1, 2), {TRUE})
\* The same with the first timeframe only.
InitOneTimeframe == InitWith(<<symbols_list[1]>>, SubSeq(RESAMPLE_INTERVALS, 1, 1), {TRUE})

\* ------------------------------------------------- storage and cache calls
\* Database.insert_ticks: bulk append, one row per tick, in order.
InsertTicks(table, ticks) == table \o ticks

\* RedisCache.push_tick: LPUSH, LTRIM 0 max_size-1 (the key's EXPIRE is set
\* by the caller's action, which knows the instant).
PushTick(list, tick) ==
    SubSeq(<<tick>> \o list, 1, Min(Len(list) + 1, CACHE_MAX_SIZE))

\* ------------------------------------------------------ stream client
\* The vendor symbol of a stream and str.lower() of it.
Upper(s) == IF s = "btcusdt" THEN "BTCUSDT" ELSE "ETHUSDT"
Lower(s) == IF s \in {"BTCUSDT", "btcusdt"} THEN "btcusdt" ELSE "ethusdt"

\* A trade message of the stream of symbol sym at the current instant. T is
\* carried in seconds (the vendor sends milliseconds, divided by 1000 on
\* receipt).
TradeMessage(sym, price, k) ==
    [e |-> "trade", T |-> now, s |-> Upper(sym), p |-> price, q |-> 1, seq |-> k]

\* BinanceWebSocketClient._normalize_tick. datetime.fromtimestamp gives the
\* host's local wall-clock time. seq is the identity of the tick object.
NormalizeTick(raw_data) ==
    [symbol |-> Lower(raw_data.s),
     timestamp |-> raw_data.T + tzOffset,
     price |-> raw_data.p,
     size |-> raw_data.q,
     seq |-> raw_data.seq]

\* A _connect_symbol task not yet scheduled. slept, received and failed are
\* history: the delays slept since the task's last successful connection,
\* whether a message has been received since its last sleep, and the number
\* of sleeps since the last received message.
NewTask(sym) ==
    [symbol |-> sym, pc |-> "new", delay |-> INITIAL_RECONNECT_DELAY,
     cancel |-> FALSE, closed |-> FALSE, tick |-> None,
     slept |-> <<>>, received |-> FALSE, failed |-> 0]

\* if self.running: await asyncio.sleep(reconnect_delay); else the loop ends.
AfterCleanup(task) ==
    IF wsRunning
    THEN [task EXCEPT !.pc = "backoff", !.closed = FALSE,
                      !.slept = Append(@, task.delay), !.received = FALSE,
                      !.failed = @ + 1]
    ELSE [task EXCEPT !.pc = "done", !.closed = FALSE]

TaskIds == 1..Len(tasks)
\* while self.running: the next await is websockets.connect, or the
\* coroutine returns.
LoopTop == IF wsRunning THEN "connecting" ELSE "done"
\* if symbol in self.connections: del self.connections[symbol]
Cleanup(sym) == [connections EXCEPT ![sym] = 0]

\* self.tick_buffer[symbol].append(tick) on the defaultdict(list).
BufferAppend(buf, tick) ==
    IF \E j \in 1..Len(buf) : buf[j].symbol = tick.symbol
    THEN [j \in 1..Len(buf) |->
            IF buf[j].symbol = tick.symbol
            THEN [buf[j] EXCEPT !.ticks = Append(@, tick)]
            ELSE buf[j]]
    ELSE Append(buf, [symbol |-> tick.symbol, ticks |-> <<tick>>])

\* all_ticks = []; for symbol, ticks in self.tick_buffer.items(): extend
RECURSIVE AllTicks(_)
AllTicks(buf) ==
    IF buf = <<>> THEN <<>> ELSE Head(buf).ticks \o AllTicks(Tail(buf))

Seqs(ticks) == {ticks[j].seq : j \in 1..Len(ticks)}

\* The task's first scheduling: it enters the loop.
TaskStart(i) ==
    /\ tasks[i].pc = "new"
    /\ ~tasks[i].cancel
    /\ tasks' = [tasks EXCEPT ![i].pc = LoopTop]
    /\ UNCHANGED <<envVars, wsRunning, wsSymbols, wsTasks, connections,
                   mgrVars, dbVars, cacheVars, rsVars, alVars, histVars>>

\* A connection that opens without touching the delay.
ConnectOkKeepsDelay(i) ==
    /\ tasks[i].pc = "connecting"
    /\ ~tasks[i].cancel
    /\ connections' = [connections EXCEPT ![tasks[i].symbol] = i]
    /\ tasks' = [tasks EXCEPT ![i].pc = "streaming",
                              ![i].closed = FALSE,
                              ![i].slept = <<>>]
    /\ UNCHANGED <<envVars, wsRunning, wsSymbols, wsTasks,
                   mgrVars, dbVars, cacheVars, rsVars, alVars, histVars>>

\* websockets.connect succeeds: the connection is registered and the delay
\* reset; the task waits for the first message.
ConnectOk(i) ==
    /\ tasks[i].pc = "connecting"
    /\ ~tasks[i].cancel
    /\ connections' = [connections EXCEPT ![tasks[i].symbol] = i]
    /\ tasks' = [tasks EXCEPT ![i].pc = "streaming",
                              ![i].delay = INITIAL_RECONNECT_DELAY,
                              ![i].closed = FALSE,
                              ![i].slept = <<>>]
    /\ UNCHANGED <<envVars, wsRunning, wsSymbols, wsTasks,
                   mgrVars, dbVars, cacheVars, rsVars, alVars, histVars>>

\* websockets.connect raises: cleanup, then backoff while running.
ConnectFail(i) ==
    /\ tasks[i].pc = "connecting"
    /\ ~tasks[i].cancel
    /\ faults < limits.faults
    /\ faults' = faults + 1
    /\ connections' = Cleanup(tasks[i].symbol)
    /\ tasks' = [tasks EXCEPT ![i] = AfterCleanup(@)]
    /\ UNCHANGED <<now, tzOffset, redisEnabled, symbolsCfg, intervalsCfg, limits, delivered, clockSteps, restarts,
                   wsRunning, wsSymbols, wsTasks,
                   mgrVars, dbVars, cacheVars, rsVars, alVars, histVars>>

\* A trade message arrives on the stream. Not running: break, leave the
\* connection, cleanup, return. Running: normalize and call on_tick, that is
\* IngestionManager._handle_tick: append to the buffer, then await
\* cache.push_tick, which suspends only when the cache is enabled.
RecvTrade(i, price) ==
    /\ tasks[i].pc = "streaming"
    /\ ~tasks[i].cancel
    /\ ~tasks[i].closed
    /\ delivered < MaxTicks
    /\ delivered' = delivered + 1
    /\ IF ~wsRunning
       THEN /\ connections' = Cleanup(tasks[i].symbol)
            /\ tasks' = [tasks EXCEPT ![i].pc = "done"]
            /\ UNCHANGED <<tickBuffer, sinceFlush>>
       ELSE LET tick == NormalizeTick(TradeMessage(tasks[i].symbol, price, delivered + 1))
            IN  /\ tickBuffer' = BufferAppend(tickBuffer, tick)
                /\ sinceFlush' = sinceFlush \cup {tick.seq}
                /\ tasks' = [tasks EXCEPT
                                ![i].pc = IF redisEnabled THEN "callback" ELSE "streaming",
                                ![i].tick = IF redisEnabled THEN tick ELSE None,
                                ![i].received = TRUE, ![i].failed = 0]
                /\ UNCHANGED connections
    /\ UNCHANGED <<now, tzOffset, redisEnabled, symbolsCfg, intervalsCfg, limits, faults, clockSteps, restarts,
                   wsRunning, wsSymbols, wsTasks,
                   mgrRunning, mgrSymbols, batch, mgrStop,
                   dbVars, cacheVars, rsVars, alVars, retained, written, idleStops, fired, apiResult>>

\* A vendor message as text on the wire. json: the text parses; e and s are
\* strings, "missing" when the key is absent; T, E, p and q are a numeral
\* (kind "num", value v), some other text (kind "str") or absent ("missing").
Num(v) == [kind |-> "num", v |-> v]
Str == [kind |-> "str", v |-> 0]
Missing == [kind |-> "missing", v |-> 0]
WellFormed(sym, price, k) ==
    [json |-> TRUE, e |-> "trade", T |-> Num(now), E |-> Num(now), s |-> Upper(sym),
     p |-> Num(price), q |-> Num(1), seq |-> k]
VendorMessages(sym, price, k) ==
    LET ok == WellFormed(sym, price, k)
    IN  {ok,
         [ok EXCEPT !.T = Missing],
         [ok EXCEPT !.json = FALSE],
         [ok EXCEPT !.e = "aggTrade"],
         [ok EXCEPT !.e = "missing"],
         [ok EXCEPT !.T = Missing, !.E = Missing],
         [ok EXCEPT !.T = Str],
         [ok EXCEPT !.s = "missing"],
         [ok EXCEPT !.p = Missing],
         [ok EXCEPT !.p = Str],
         [ok EXCEPT !.q = Missing],
         [ok EXCEPT !.q = Str]}

\* json.loads(message) raises JSONDecodeError.
JsonLoadsRaises(m) == ~m.json
\* A test of the event type that lets every message through.
IsTradeAny(data) == TRUE
\* data.get('e') == 'trade'
IsTrade(data) == data.e = "trade"
\* raw_data.get('T', raw_data.get('E'))
TimeField(raw_data) == IF raw_data.T.kind # "missing" THEN raw_data.T ELSE raw_data.E
\* _normalize_tick raises: the time is not a number (TypeError), a key is
\* absent (KeyError) or float() rejects the text (ValueError).
NormalizeRaises(raw_data) ==
    \/ TimeField(raw_data).kind # "num"
    \/ raw_data.s = "missing"
    \/ raw_data.p.kind # "num"
    \/ raw_data.q.kind # "num"
\* The message reaches await self.on_tick(tick).
Delivers(m) == ~JsonLoadsRaises(m) /\ IsTrade(m) /\ ~NormalizeRaises(m)
NormalizeMessage(m) ==
    NormalizeTick([T |-> TimeField(m).v, s |-> m.s, p |-> m.p.v, q |-> m.q.v, seq |-> m.seq])

\* Any message arrives on the stream. Not running: break. A message that
\* does not parse, is not a trade or cannot be normalized is logged inside
\* the loop and the next message awaited; otherwise on_tick is called.
RecvMessage(i, m) ==
    /\ tasks[i].pc = "streaming"
    /\ ~tasks[i].cancel
    /\ ~tasks[i].closed
    /\ delivered < MaxTicks
    /\ m.seq = delivered + 1
    /\ delivered' = delivered + 1
    /\ IF ~wsRunning
       THEN /\ connections' = Cleanup(tasks[i].symbol)
            /\ tasks' = [tasks EXCEPT ![i].pc = "done"]
            /\ UNCHANGED <<tickBuffer, sinceFlush>>
       ELSE IF Delivers(m)
       THEN /\ tickBuffer' = BufferAppend(tickBuffer, NormalizeMessage(m))
            /\ sinceFlush' = sinceFlush \cup {m.seq}
            /\ tasks' = [tasks EXCEPT
                            ![i].pc = IF redisEnabled THEN "callback" ELSE "streaming",
                            ![i].tick = IF redisEnabled THEN NormalizeMessage(m) ELSE None,
                            ![i].received = TRUE, ![i].failed = 0]
            /\ UNCHANGED connections
       ELSE UNCHANGED <<tasks, connections, tickBuffer, sinceFlush>>
    /\ UNCHANGED <<now, tzOffset, redisEnabled, symbolsCfg, intervalsCfg, limits, faults, clockSteps, restarts,
                   wsRunning, wsSymbols, wsTasks,
                   mgrRunning, mgrSymbols, batch, mgrStop,
                   dbVars, cacheVars, rsVars, alVars, retained, written, idleStops, fired, apiResult>>

\* The suspended cache.push_tick of _handle_tick completes (LPUSH, LTRIM,
\* EXPIRE), or raises and is logged inside push_tick; on_tick returns.
CallbackDone(i, ok) ==
    /\ tasks[i].pc = "callback"
    /\ ~tasks[i].cancel
    /\ IF ok
       THEN /\ cacheTicks' = [cacheTicks EXCEPT ![tasks[i].symbol] =
                                PushTick(@, tasks[i].tick)]
            /\ cacheExpiry' = [cacheExpiry EXCEPT ![tasks[i].symbol] = now + CACHE_TTL]
            /\ UNCHANGED faults
       ELSE /\ faults < limits.faults
            /\ faults' = faults + 1
            /\ UNCHANGED cacheVars
    /\ tasks' = [tasks EXCEPT ![i].pc = "streaming", ![i].tick = None]
    /\ UNCHANGED <<now, tzOffset, redisEnabled, symbolsCfg, intervalsCfg, limits, delivered, clockSteps, restarts,
                   wsRunning, wsSymbols, wsTasks, connections,
                   mgrVars, dbVars, rsVars, alVars, histVars>>

\* A stream whose end makes the coroutine return.
StreamEndReturns(i) ==
    /\ tasks[i].pc = "streaming"
    /\ ~tasks[i].cancel
    /\ IF tasks[i].closed
       THEN UNCHANGED faults
       ELSE faults < limits.faults /\ faults' = faults + 1
    /\ connections' = Cleanup(tasks[i].symbol)
    /\ tasks' = [tasks EXCEPT ![i].pc = "done", ![i].closed = FALSE]
    /\ UNCHANGED <<now, tzOffset, redisEnabled, symbolsCfg, intervalsCfg, limits, delivered, clockSteps, restarts,
                   wsRunning, wsSymbols, wsTasks,
                   mgrVars, dbVars, cacheVars, rsVars, alVars, histVars>>

\* The stream ends: the connection was closed by stop(), or the server
\* closed it or recv raised. Cleanup, then backoff while running.
StreamEnd(i) ==
    /\ tasks[i].pc = "streaming"
    /\ ~tasks[i].cancel
    /\ IF tasks[i].closed
       THEN UNCHANGED faults
       ELSE faults < limits.faults /\ faults' = faults + 1
    /\ connections' = Cleanup(tasks[i].symbol)
    /\ tasks' = [tasks EXCEPT ![i] = AfterCleanup(@)]
    /\ UNCHANGED <<now, tzOffset, redisEnabled, symbolsCfg, intervalsCfg, limits, delivered, clockSteps, restarts,
                   wsRunning, wsSymbols, wsTasks,
                   mgrVars, dbVars, cacheVars, rsVars, alVars, histVars>>

\* A backoff after which the coroutine returns.
BackoffDoneReturns(i) ==
    /\ tasks[i].pc = "backoff"
    /\ ~tasks[i].cancel
    /\ tasks' = [tasks EXCEPT ![i].pc = "done"]
    /\ UNCHANGED <<envVars, wsRunning, wsSymbols, wsTasks, connections,
                   mgrVars, dbVars, cacheVars, rsVars, alVars, histVars>>

\* A backoff that doubles the delay without the cap.
BackoffDoneNoCap(i) ==
    /\ tasks[i].pc = "backoff"
    /\ ~tasks[i].cancel
    /\ tasks' = [tasks EXCEPT ![i].pc = LoopTop, ![i].delay = @ * 2]
    /\ UNCHANGED <<envVars, wsRunning, wsSymbols, wsTasks, connections,
                   mgrVars, dbVars, cacheVars, rsVars, alVars, histVars>>

\* asyncio.sleep(reconnect_delay) returns; the delay doubles up to the cap.
BackoffDone(i) ==
    /\ tasks[i].pc = "backoff"
    /\ ~tasks[i].cancel
    /\ tasks' = [tasks EXCEPT ![i].pc = LoopTop,
                              ![i].delay = Min(@ * 2, MAX_RECONNECT_DELAY)]
    /\ UNCHANGED <<envVars, wsRunning, wsSymbols, wsTasks, connections,
                   mgrVars, dbVars, cacheVars, rsVars, alVars, histVars>>

\* task.cancel() was called: CancelledError is raised at the task's await
\* and, not being an Exception, leaves the loop without the cleanup.
TaskCancelled(i) ==
    /\ tasks[i].cancel
    /\ tasks[i].pc # "done"
    /\ tasks' = [tasks EXCEPT ![i].pc = "done", ![i].tick = None, ![i].closed = FALSE]
    /\ UNCHANGED <<envVars, wsRunning, wsSymbols, wsTasks, connections,
                   mgrVars, dbVars, cacheVars, rsVars, alVars, histVars>>

\* list.remove(x): the first occurrence is taken out.
RECURSIVE RemoveFirst(_, _)
RemoveFirst(q, x) ==
    IF q = <<>> THEN <<>>
    ELSE IF Head(q) = x THEN Tail(q)
    ELSE <<Head(q)>> \o RemoveFirst(Tail(q), x)

\* An add_symbol that creates the task whether or not the client runs.
WsAddSymbolSpawnsStopped(symbol) ==
    IF Lower(symbol) \notin Range(wsSymbols)
    THEN /\ wsSymbols' = Append(wsSymbols, Lower(symbol))
         /\ Len(tasks) < MaxTasks
         /\ tasks' = Append(tasks, NewTask(Lower(symbol)))
         /\ wsTasks' = Append(wsTasks, Len(tasks) + 1)
    ELSE UNCHANGED <<wsSymbols, tasks, wsTasks>>

\* BinanceWebSocketClient.add_symbol
WsAddSymbol(symbol) ==
    IF Lower(symbol) \notin Range(wsSymbols)
    THEN /\ wsSymbols' = Append(wsSymbols, Lower(symbol))
         /\ IF wsRunning
            THEN /\ Len(tasks) < MaxTasks
                 /\ tasks' = Append(tasks, NewTask(Lower(symbol)))
                 /\ wsTasks' = Append(wsTasks, Len(tasks) + 1)
            ELSE UNCHANGED <<tasks, wsTasks>>
    ELSE UNCHANGED <<wsSymbols, tasks, wsTasks>>

\* BinanceWebSocketClient.remove_symbol: the list alone is changed.
WsRemoveSymbol(symbol) ==
    IF Lower(symbol) \in Range(wsSymbols)
    THEN wsSymbols' = RemoveFirst(wsSymbols, Lower(symbol))
    ELSE UNCHANGED wsSymbols

\* ------------------------------------------------------ ingestion manager
\* IngestionManager.add_symbol, called by POST /symbols with symbol.lower().
MgrAddSymbol(symbol) ==
    /\ IF symbol \notin Range(mgrSymbols)
       THEN /\ mgrSymbols' = Append(mgrSymbols, symbol)
            /\ WsAddSymbol(symbol)
       ELSE UNCHANGED <<mgrSymbols, wsSymbols, tasks, wsTasks>>
    /\ UNCHANGED <<envVars, wsRunning, connections, mgrRunning, tickBuffer, batch, mgrStop,
                   dbVars, cacheVars, rsVars, alVars, histVars>>

\* IngestionManager.remove_symbol
MgrRemoveSymbol(symbol) ==
    /\ IF symbol \in Range(mgrSymbols)
       THEN /\ mgrSymbols' = RemoveFirst(mgrSymbols, symbol)
            /\ WsRemoveSymbol(symbol)
       ELSE UNCHANGED <<mgrSymbols, wsSymbols>>
    /\ UNCHANGED <<envVars, wsRunning, wsTasks, tasks, connections,
                   mgrRunning, tickBuffer, batch, mgrStop,
                   dbVars, cacheVars, rsVars, alVars, histVars>>

\* BinanceWebSocketClient.start, called by IngestionManager.start: one task
\* per symbol, in a new list.
SpawnAll(syms) == [j \in 1..Len(syms) |-> NewTask(syms[j])]

\* IngestionManager.start. ws_client.start() does not suspend, so the whole
\* call is one step.
MgrStart ==
    /\ mgrStop.pc = "idle"
    /\ ~mgrRunning
    /\ mgrRunning' = TRUE
    /\ IF wsRunning
       THEN UNCHANGED <<wsRunning, wsTasks, tasks>>
       ELSE /\ Len(tasks) + Len(wsSymbols) <= MaxTasks
            /\ wsRunning' = TRUE
            /\ tasks' = tasks \o SpawnAll(wsSymbols)
            /\ wsTasks' = [j \in 1..Len(wsSymbols) |-> Len(tasks) + j]
    /\ batch' = [NoTask EXCEPT !.pc = "new"]
    /\ mgrStop' = NoStop
    /\ idleStops' = idleStops \ {"client", "manager"}
    /\ UNCHANGED <<envVars, wsSymbols, connections, mgrSymbols, tickBuffer,
                   dbVars, cacheVars, rsVars, alVars, sinceFlush, retained, written, fired, apiResult>>

\* while self.running at the top of _batch_insert_loop: sleep, or return.
BatchLoopTop == IF mgrRunning THEN "sleep" ELSE "done"

BatchStart ==
    /\ batch.pc = "new"
    /\ ~batch.cancel
    /\ batch' = [batch EXCEPT !.pc = BatchLoopTop]
    /\ UNCHANGED <<envVars, wsVars, mgrRunning, mgrSymbols, tickBuffer, mgrStop,
                   dbVars, cacheVars, rsVars, alVars, histVars>>

\* asyncio.sleep(BATCH_INSERT_INTERVAL) returns: an empty buffer continues;
\* otherwise all_ticks is collected and db.insert_ticks awaited.
BatchWake ==
    /\ batch.pc = "sleep"
    /\ ~batch.cancel
    /\ IF tickBuffer = <<>> \/ AllTicks(tickBuffer) = <<>>
       THEN batch' = [batch EXCEPT !.pc = BatchLoopTop, !.erred = FALSE]
       ELSE batch' = [batch EXCEPT !.pc = "insert", !.all_ticks = AllTicks(tickBuffer),
                                   !.erred = FALSE]
    /\ UNCHANGED <<envVars, wsVars, mgrRunning, mgrSymbols, tickBuffer, mgrStop,
                   dbVars, cacheVars, rsVars, alVars, histVars>>

\* db.insert_ticks(all_ticks) returns: self.tick_buffer.clear().
BatchInsertOk ==
    /\ batch.pc = "insert"
    /\ ~batch.cancel
    /\ dbTicks' = InsertTicks(dbTicks, batch.all_ticks)
    /\ tickBuffer' = <<>>
    /\ batch' = [batch EXCEPT !.pc = BatchLoopTop, !.all_ticks = <<>>]
    /\ sinceFlush' = {}
    /\ retained' = retained \ Seqs(batch.all_ticks)
    /\ UNCHANGED <<envVars, wsVars, mgrRunning, mgrSymbols, mgrStop, dbOhlc, dbAlerts,
                   cacheVars, rsVars, alVars, written, idleStops, fired, apiResult>>

\* A failed periodic insert that clears the buffer all the same.
BatchInsertFailClears ==
    /\ batch.pc = "insert"
    /\ ~batch.cancel
    /\ faults < limits.faults
    /\ faults' = faults + 1
    /\ batch' = [batch EXCEPT !.pc = BatchLoopTop, !.all_ticks = <<>>, !.erred = TRUE]
    /\ tickBuffer' = <<>>
    /\ retained' = retained \cup Seqs(batch.all_ticks)
    /\ UNCHANGED <<now, tzOffset, redisEnabled, symbolsCfg, intervalsCfg, limits, delivered, clockSteps, restarts,
                   wsVars, mgrRunning, mgrSymbols, mgrStop,
                   dbVars, cacheVars, rsVars, alVars, sinceFlush, written, idleStops, fired, apiResult>>

\* db.insert_ticks raises: logged by the loop's except Exception.
BatchInsertFail ==
    /\ batch.pc = "insert"
    /\ ~batch.cancel
    /\ faults < limits.faults
    /\ faults' = faults + 1
    /\ batch' = [batch EXCEPT !.pc = BatchLoopTop, !.all_ticks = <<>>, !.erred = TRUE]
    /\ retained' = retained \cup Seqs(batch.all_ticks)
    /\ UNCHANGED <<now, tzOffset, redisEnabled, symbolsCfg, intervalsCfg, limits, delivered, clockSteps, restarts,
                   wsVars, mgrRunning, mgrSymbols, tickBuffer, mgrStop,
                   dbVars, cacheVars, rsVars, alVars, sinceFlush, written, idleStops, fired, apiResult>>

\* batch_task.cancel() was called: CancelledError at the task's await. A
\* commit under way when the await is cancelled may or may not have reached
\* the database.
BatchCancelled(committed) ==
    /\ batch.cancel
    /\ batch.pc \notin {"done", "none"}
    /\ IF batch.pc = "insert" /\ committed
       THEN /\ dbTicks' = InsertTicks(dbTicks, batch.all_ticks)
            /\ retained' = retained \ Seqs(batch.all_ticks)
       ELSE UNCHANGED <<dbTicks, retained>>
    /\ batch' = [batch EXCEPT !.pc = "done", !.all_ticks = <<>>]
    /\ UNCHANGED <<envVars, wsVars, mgrRunning, mgrSymbols, tickBuffer, mgrStop,
                   dbOhlc, dbAlerts, cacheVars, rsVars, alVars, sinceFlush, written, idleStops, fired, apiResult>>

\* for task in self.tasks: task.cancel()  (a finished task is not affected)
CancelTasks(ts, ids) ==
    [j \in 1..Len(ts) |->
        IF j \in Range(ids) /\ ts[j].pc # "done"
        THEN [ts[j] EXCEPT !.cancel = TRUE]
        ELSE ts[j]]

\* self.batch_task.cancel()
CancelBatch(b) ==
    IF b.pc \in {"done", "none"} THEN b ELSE [b EXCEPT !.cancel = TRUE]

\* list(self.connections.items()): the connections open when stop() starts,
\* as the tasks that own them.
ConnItems ==
    LET syms == SelectSeq(symbols_list, LAMBDA s : connections[s] # 0)
    IN  [j \in 1..Len(syms) |-> connections[syms[j]]]

\* BinanceWebSocketClient.stop on a running client, up to its first await:
\* the flag is cleared and ws.close() awaited for each open connection or,
\* with none open, the tasks are cancelled and gather awaited.
WsStopEnter(caller) ==
    /\ wsRunning' = FALSE
    /\ IF ConnItems = <<>>
       THEN /\ tasks' = CancelTasks(tasks, wsTasks)
            /\ mgrStop' = [NoStop EXCEPT !.pc = "gather", !.caller = caller,
                             !.seen = {tasks[j].pc : j \in Range(wsTasks)}]
       ELSE /\ tasks' = tasks
            /\ mgrStop' = [NoStop EXCEPT !.pc = "closing", !.caller = caller,
                             !.toClose = ConnItems,
                             !.seen = {tasks[j].pc : j \in Range(wsTasks)}]

\* IngestionManager.stop on a running manager, up to its first await.
\* running is cleared, then ws_client.stop() runs: it returns at once when
\* the client is not running and the batch task is cancelled and awaited.
MgrStopBegin ==
    /\ mgrStop.pc = "idle"
    /\ mgrRunning
    /\ mgrRunning' = FALSE
    /\ IF ~wsRunning
       THEN /\ batch' = CancelBatch(batch)
            /\ mgrStop' = [NoStop EXCEPT !.pc = "await_batch", !.caller = "manager"]
            /\ UNCHANGED <<wsRunning, tasks>>
       ELSE /\ WsStopEnter("manager")
            /\ UNCHANGED batch
    /\ UNCHANGED <<envVars, wsSymbols, wsTasks, connections, mgrSymbols, tickBuffer,
                   dbVars, cacheVars, rsVars, alVars, histVars>>

\* BinanceWebSocketClient.stop called on a running client by the application.
WsStopBegin ==
    /\ mgrStop.pc = "idle"
    /\ wsRunning
    /\ WsStopEnter("client")
    /\ UNCHANGED <<envVars, wsSymbols, wsTasks, connections, mgrRunning, mgrSymbols,
                   tickBuffer, batch, dbVars, cacheVars, rsVars, alVars, histVars>>

\* One await ws.close() of BinanceWebSocketClient.stop returns (ok), or
\* raises and is logged. After the last one every task is cancelled and
\* gather awaited.
WsStopClose(ok) ==
    /\ mgrStop.pc = "closing"
    /\ LET id == Head(mgrStop.toClose)
           rest == Tail(mgrStop.toClose)
           closed == IF ok /\ tasks[id].pc \in {"streaming", "callback"}
                     THEN [tasks EXCEPT ![id].closed = TRUE]
                     ELSE tasks
       IN  /\ IF ok THEN UNCHANGED faults
                    ELSE faults < limits.faults /\ faults' = faults + 1
           /\ IF rest = <<>>
              THEN /\ tasks' = CancelTasks(closed, wsTasks)
                   /\ mgrStop' = [mgrStop EXCEPT !.pc = "gather", !.toClose = <<>>]
              ELSE /\ tasks' = closed
                   /\ mgrStop' = [mgrStop EXCEPT !.toClose = rest]
    /\ UNCHANGED <<now, tzOffset, redisEnabled, symbolsCfg, intervalsCfg, limits, delivered, clockSteps, restarts,
                   wsRunning, wsSymbols, wsTasks, connections,
                   mgrRunning, mgrSymbols, tickBuffer, batch,
                   dbVars, cacheVars, rsVars, alVars, histVars>>

\* A stop() that does not wait for the tasks to finish.
WsStopNoGather ==
    /\ mgrStop.pc = "gather"
    /\ connections' = [s \in AllSymbols |-> 0]
    /\ wsTasks' = <<>>
    /\ IF mgrStop.caller = "manager"
       THEN /\ batch' = CancelBatch(batch)
            /\ mgrStop' = [mgrStop EXCEPT !.pc = "await_batch"]
       ELSE /\ batch' = batch
            /\ mgrStop' = [mgrStop EXCEPT !.pc = "idle", !.result = "client returned"]
    /\ UNCHANGED <<envVars, wsRunning, wsSymbols, tasks,
                   mgrRunning, mgrSymbols, tickBuffer,
                   dbVars, cacheVars, rsVars, alVars, histVars>>

\* asyncio.gather(*self.tasks, return_exceptions=True) returns once every
\* task has finished; connections and tasks are cleared and
\* ws_client.stop() returns. The manager cancels the batch task and awaits it.
WsStopGatherDone ==
    /\ mgrStop.pc = "gather"
    /\ \A j \in Range(wsTasks) : tasks[j].pc = "done"
    /\ connections' = [s \in AllSymbols |-> 0]
    /\ wsTasks' = <<>>
    /\ IF mgrStop.caller = "manager"
       THEN /\ batch' = CancelBatch(batch)
            /\ mgrStop' = [mgrStop EXCEPT !.pc = "await_batch"]
       ELSE /\ batch' = batch
            /\ mgrStop' = [mgrStop EXCEPT !.pc = "idle", !.result = "client returned"]
    /\ UNCHANGED <<envVars, wsRunning, wsSymbols, tasks,
                   mgrRunning, mgrSymbols, tickBuffer,
                   dbVars, cacheVars, rsVars, alVars, histVars>>

\* await self.batch_task returns: the remaining ticks are collected and, if
\* there are any, db.insert_ticks awaited; else the buffer is cleared and
\* stop() returns.
MgrStopFlush ==
    /\ mgrStop.pc = "await_batch"
    /\ batch.pc \in {"done", "none"}
    /\ IF AllTicks(tickBuffer) # <<>>
       THEN /\ mgrStop' = [mgrStop EXCEPT !.pc = "final_insert",
                                          !.all_ticks = AllTicks(tickBuffer)]
            /\ UNCHANGED tickBuffer
       ELSE /\ mgrStop' = [mgrStop EXCEPT !.pc = "idle", !.result = "returned"]
            /\ tickBuffer' = <<>>
    /\ UNCHANGED <<envVars, wsVars, mgrRunning, mgrSymbols, batch,
                   dbVars, cacheVars, rsVars, alVars, histVars>>

\* A final flush that clears the buffer without storing it.
MgrStopFinalDrops ==
    /\ mgrStop.pc = "final_insert"
    /\ tickBuffer' = <<>>
    /\ mgrStop' = [mgrStop EXCEPT !.pc = "idle", !.all_ticks = <<>>, !.result = "returned"]
    /\ UNCHANGED <<envVars, wsVars, mgrRunning, mgrSymbols, batch, dbVars,
                   cacheVars, rsVars, alVars, histVars>>

\* The final db.insert_ticks returns: the buffer is cleared, stop() returns.
MgrStopFinalOk ==
    /\ mgrStop.pc = "final_insert"
    /\ dbTicks' = InsertTicks(dbTicks, mgrStop.all_ticks)
    /\ tickBuffer' = <<>>
    /\ retained' = retained \ Seqs(mgrStop.all_ticks)
    /\ mgrStop' = [mgrStop EXCEPT !.pc = "idle", !.all_ticks = <<>>, !.result = "returned"]
    /\ UNCHANGED <<envVars, wsVars, mgrRunning, mgrSymbols, batch, dbOhlc, dbAlerts,
                   cacheVars, rsVars, alVars, sinceFlush, written, idleStops, fired, apiResult>>

\* The final db.insert_ticks raises: stop() raises with the buffer kept.
MgrStopFinalFail ==
    /\ mgrStop.pc = "final_insert"
    /\ faults < limits.faults
    /\ faults' = faults + 1
    /\ mgrStop' = [mgrStop EXCEPT !.pc = "idle", !.all_ticks = <<>>, !.result = "raised"]
    /\ UNCHANGED <<now, tzOffset, redisEnabled, symbolsCfg, intervalsCfg, limits, delivered, clockSteps, restarts,
                   wsVars, mgrRunning, mgrSymbols, tickBuffer, batch,
                   dbVars, cacheVars, rsVars, alVars, histVars>>

\* ------------------------------------------------------- storage reads
\* RedisCache.get_recent_ticks: LRANGE 0 count-1, reversed (oldest first);
\* [] when the cache is disabled, the key has expired or the call fails.
RECURSIVE Reverse(_)
Reverse(q) == [j \in 1..Len(q) |-> q[Len(q) + 1 - j]]

\* LRANGE 0 count-1 returned as it comes, newest first.
GetRecentTicksNewestFirst(sym, count) ==
    IF ~redisEnabled \/ sym \notin AllSymbols \/ now >= cacheExpiry[sym]
    THEN <<>>
    ELSE SubSeq(cacheTicks[sym], 1, Min(count, Len(cacheTicks[sym])))
GetRecentTicks(sym, count) ==
    IF ~redisEnabled \/ sym \notin AllSymbols \/ now >= cacheExpiry[sym]
    THEN <<>>
    ELSE Reverse(SubSeq(cacheTicks[sym], 1, Min(count, Len(cacheTicks[sym]))))

\* A consumer (the live feed of api/websocket.py, the alert engine) reads
\* the cache; a read that fails returns [].
CacheGetRecentTicks(sym, count, ok) ==
    /\ IF ok \/ ~redisEnabled THEN UNCHANGED faults
       ELSE faults < limits.faults /\ faults' = faults + 1
    /\ apiResult' = [call |-> "get_recent_ticks", arg |-> count, symbol |-> sym,
                     value |-> IF ok THEN GetRecentTicks(sym, count) ELSE <<>>]
    /\ UNCHANGED <<now, tzOffset, redisEnabled, symbolsCfg, intervalsCfg, limits, delivered,
                   clockSteps, restarts, progVars, sinceFlush, retained, written, idleStops, fired>>

\* ORDER BY timestamp: ascending by timestamp, rows of one timestamp in
\* insertion order.
RECURSIVE InsertSorted(_, _)
InsertSorted(q, t) ==
    IF q = <<>> THEN <<t>>
    ELSE IF q[Len(q)].timestamp <= t.timestamp THEN Append(q, t)
    ELSE Append(InsertSorted(SubSeq(q, 1, Len(q) - 1), t), q[Len(q)])

RECURSIVE SortByTimestamp(_)
SortByTimestamp(q) ==
    IF q = <<>> THEN <<>>
    ELSE InsertSorted(SortByTimestamp(SubSeq(q, 1, Len(q) - 1)), q[Len(q)])

\* Database.get_ticks(symbol, start_time, end_time, limit): the newest
\* limit rows of the window, returned in chronological order.
GetTicks(sym, start_time, end_time, limit) ==
    LET hit == SelectSeq(dbTicks, LAMBDA r : /\ r.symbol = sym
                                             /\ r.timestamp >= start_time
                                             /\ r.timestamp <= end_time)
        asc == SortByTimestamp(hit)
    IN  SubSeq(asc, Len(asc) - Min(limit, Len(asc)) + 1, Len(asc))

\* ------------------------------------------------------------ candles
\* float NaN, held as a value no price takes (prices are positive).
NaN == 0 - 1

\* The OHLC table's key: UniqueConstraint('symbol', 'timeframe', 'timestamp').
SameKey(r, d) ==
    r.symbol = d.symbol /\ r.timeframe = d.timeframe /\ r.timestamp = d.timestamp

uix_ohlc(table) ==
    \A a, b \in 1..Len(table) : SameKey(table[a], table[b]) => a = b

\* An insert_ohlc that adds a row whether or not the key exists.
InsertOhlcAlwaysAdd(table, d) ==
    Append(table, d)

\* Database.insert_ohlc: update the row of the key if there is one, else add
\* a row.
InsertOhlc(table, d) ==
    IF \E a \in 1..Len(table) : SameKey(table[a], d)
    THEN [a \in 1..Len(table) |->
            IF SameKey(table[a], d)
            THEN [table[a] EXCEPT !.open = d.open, !.high = d.high, !.low = d.low,
                                  !.close = d.close, !.volume = d.volume,
                                  !.trade_count = d.trade_count]
            ELSE table[a]]
    ELSE Append(table, d)

\* A commit that stores NaN as it is.
InsertOhlcAcceptsNaN(table, d) == ~uix_ohlc(InsertOhlc(table, d))

\* The commit raises IntegrityError when a NOT NULL price column would hold
\* NaN (stored as NULL) or the unique constraint would break.
InsertOhlcRaises(table, d) ==
    \/ d.open = NaN
    \/ ~uix_ohlc(InsertOhlc(table, d))

SeqMax(q) == CHOOSE x \in Range(q) : \A y \in Range(q) : y <= x
SeqMin(q) == CHOOSE x \in Range(q) : \A y \in Range(q) : x <= y
RECURSIVE SeqSum(_)
SeqSum(q) ==
    IF q = <<>> THEN 0
    ELSE IF Len(q) = 1 THEN q[1]
    ELSE SeqSum(SubSeq(q, 1, Len(q) \div 2)) + SeqSum(SubSeq(q, Len(q) \div 2 + 1, Len(q)))

\* df.resample(timeframe): the labels of the bins, from the bin of the
\* first timestamp to the bin of the last, empty bins included.
BinLabels(ticks, timeframe) ==
    LET ts == {ticks[j].timestamp : j \in 1..Len(ticks)}
        first == CHOOSE x \in ts : \A y \in ts : x <= y
        last == CHOOSE x \in ts : \A y \in ts : y <= x
        off == PandasOffset(timeframe)
        lo == ResampleLabel(first, first, timeframe)
        hi == ResampleLabel(last, first, timeframe)
    IN  IF off.kind = "MonthEnd"
        THEN {MonthEndOf(MonthIndex(first) + k * off.n) :
                k \in 0..((MonthIndex(last) - MonthIndex(first) + off.n - 1) \div off.n)}
        ELSE {lo + k * off.secs : k \in 0..((hi - lo) \div off.secs)}

\* ohlc[ohlc.index < _get_candle_timestamp(now, timeframe)]
CompleteLabels(ticks, timeframe) ==
    {b \in BinLabels(ticks, timeframe) : b < GetCandleTimestamp(now, timeframe)}

\* The rows of the frame that resample() puts in the bin labelled
\* candle_time, in frame order, and their timestamps.
BinRows(timeframe, ticks, candle_time) ==
    LET first == SeqMin([j \in 1..Len(ticks) |-> ticks[j].timestamp])
    IN  SelectSeq(ticks, LAMBDA t :
            ResampleLabel(t.timestamp, first, timeframe) = candle_time)

BinTimestamps(timeframe, ticks, candle_time) ==
    LET rows == BinRows(timeframe, ticks, candle_time)
    IN  {rows[j].timestamp : j \in 1..Len(rows)}

\* ohlc_data of the bin labelled candle_time: ohlc(), sum() and count() of
\* the bin's rows.
OhlcData(sym, timeframe, ticks, candle_time) ==
    LET rows == BinRows(timeframe, ticks, candle_time)
        prices == [j \in 1..Len(rows) |-> rows[j].price]
        sizes == [j \in 1..Len(rows) |-> rows[j].size]
    IN  [symbol |-> sym, timeframe |-> timeframe, timestamp |-> candle_time,
         open |-> IF rows = <<>> THEN NaN ELSE prices[1],
         high |-> IF rows = <<>> THEN NaN ELSE SeqMax(prices),
         low |-> IF rows = <<>> THEN NaN ELSE SeqMin(prices),
         close |-> IF rows = <<>> THEN NaN ELSE prices[Len(prices)],
         volume |-> SeqSum(sizes),
         trade_count |-> Len(rows)]

\* ----------------------------------------------------- resampling engine
NewRTask(sym, timeframe) ==
    [symbol |-> sym, timeframe |-> timeframe, pc |-> "new", cancel |-> FALSE,
     data |-> None, rows |-> {}, wakeAt |-> 0, erred |-> FALSE]

RTaskIds == 1..Len(rtasks)

\* for symbol in symbols: for timeframe in settings.RESAMPLE_INTERVALS
SpawnResamplers(symbols) ==
    [j \in 1..(Len(symbols) * Len(intervalsCfg)) |->
        NewRTask(symbols[((j - 1) \div Len(intervalsCfg)) + 1],
                 intervalsCfg[((j - 1) % Len(intervalsCfg)) + 1])]

\* ResamplingEngine.start(symbols): the tasks are appended to self.tasks.
RsStart(symbols) ==
    /\ rsStop = "idle"
    /\ ~rsRunning
    /\ Len(rtasks) + Len(symbols) * Len(intervalsCfg) <= MaxRTasks
    /\ rsRunning' = TRUE
    /\ rtasks' = rtasks \o SpawnResamplers(symbols)
    /\ rsTasks' = rsTasks \o [j \in 1..(Len(symbols) * Len(intervalsCfg)) |->
                                Len(rtasks) + j]
    /\ idleStops' = idleStops \ {"resampler"}
    /\ UNCHANGED <<envVars, wsVars, mgrVars, dbVars, cacheVars, currentCandles, rsStop,
                   alVars, sinceFlush, retained, written, fired, apiResult>>

\* The ticks one cycle works on: the cache's, else the last hour's from
\* storage.
FetchTicks(sym, cacheOk) ==
    LET cached == IF cacheOk THEN GetRecentTicks(sym, RESAMPLE_TICK_COUNT) ELSE <<>>
    IN  IF cached # <<>> THEN cached
        ELSE GetTicks(sym, now - RESAMPLE_LOOKBACK, now, RESAMPLE_TICK_COUNT)

\* A check that also skips a bucket storage already holds.
IsNewCandleUnlessStored(key, candle_time) ==
    /\ currentCandles[key] # candle_time
    /\ ~\E a \in 1..Len(dbOhlc) : /\ dbOhlc[a].symbol = key[1]
                                  /\ dbOhlc[a].timeframe = key[2]
                                  /\ dbOhlc[a].timestamp = candle_time

\* Check if this is a new candle: last_candle_time != candle_time
IsNewCandle(key, candle_time) == currentCandles[key] # candle_time

\* One cycle of _resample_symbol_timeframe from the top of the loop to its
\* next lasting await: fetch (cacheOk: the cache call did not fail; dbOk:
\* the storage read, if made, did not raise), resample, pick the latest
\* complete candle and, if it is new, await db.insert_ohlc; else sleep.
RsCycle(i, cacheOk, dbOk) ==
    /\ \/ rtasks[i].pc = "new"
       \/ rtasks[i].pc = "sleep" /\ now >= rtasks[i].wakeAt
    /\ ~rtasks[i].cancel
    /\ LET sym == rtasks[i].symbol
           tf == rtasks[i].timeframe
           key == <<sym, tf>>
           usedDb == ~cacheOk \/ GetRecentTicks(sym, RESAMPLE_TICK_COUNT) = <<>>
           failed == (redisEnabled /\ ~cacheOk) \/ (usedDb /\ ~dbOk)
           ticks == FetchTicks(sym, cacheOk)
           complete == IF ticks = <<>> THEN {} ELSE CompleteLabels(ticks, tf)
           candle_time == CHOOSE b \in complete : \A c \in complete : c <= b
           sleeping == [rtasks EXCEPT ![i].pc = "sleep", ![i].data = None, ![i].rows = {},
                                      ![i].wakeAt = now + ParseTimeframe(tf),
                                      ![i].erred = usedDb /\ ~dbOk]
       IN  /\ cacheOk \/ redisEnabled
           /\ dbOk \/ usedDb
           /\ IF failed THEN faults < limits.faults /\ faults' = faults + 1
                        ELSE UNCHANGED faults
           /\ IF ~rsRunning
              THEN rtasks' = [rtasks EXCEPT ![i].pc = "done"]
              ELSE IF (usedDb /\ ~dbOk) \/ complete = {}
                      \/ ~IsNewCandle(key, candle_time)
              THEN rtasks' = sleeping
              ELSE rtasks' = [rtasks EXCEPT ![i].pc = "write", ![i].erred = FALSE,
                                ![i].data = OhlcData(sym, tf, ticks, candle_time),
                                ![i].rows = BinTimestamps(tf, ticks, candle_time)]
    /\ UNCHANGED <<now, tzOffset, redisEnabled, symbolsCfg, intervalsCfg, limits, delivered, clockSteps, restarts,
                   wsVars, mgrVars, dbVars, cacheVars,
                   rsRunning, rsTasks, currentCandles, rsStop, alVars, histVars>>

\* db.insert_ohlc(ohlc_data) returns: the bucket is remembered, then sleep.
RsWriteOk(i) ==
    /\ rtasks[i].pc = "write"
    /\ ~rtasks[i].cancel
    /\ ~InsertOhlcRaises(dbOhlc, rtasks[i].data)
    /\ dbOhlc' = InsertOhlc(dbOhlc, rtasks[i].data)
    /\ currentCandles' = [currentCandles EXCEPT
            ![<<rtasks[i].symbol, rtasks[i].timeframe>>] = rtasks[i].data.timestamp]
    /\ written' = [written EXCEPT
            ![<<rtasks[i].symbol, rtasks[i].timeframe>>] = Append(@, rtasks[i].data.timestamp)]
    /\ rtasks' = [rtasks EXCEPT ![i].pc = "sleep", ![i].data = None, ![i].rows = {},
                                ![i].wakeAt = now + ParseTimeframe(rtasks[i].timeframe)]
    /\ UNCHANGED <<envVars, wsVars, mgrVars, dbTicks, dbAlerts, cacheVars, rsRunning, rsTasks, rsStop,
                   alVars, sinceFlush, retained, idleStops, fired, apiResult>>

\* A failed upsert after which the bucket is remembered all the same.
RsWriteFailRemembers(i) ==
    /\ rtasks[i].pc = "write"
    /\ ~rtasks[i].cancel
    /\ IF InsertOhlcRaises(dbOhlc, rtasks[i].data)
       THEN UNCHANGED faults
       ELSE faults < limits.faults /\ faults' = faults + 1
    /\ currentCandles' = [currentCandles EXCEPT
            ![<<rtasks[i].symbol, rtasks[i].timeframe>>] = rtasks[i].data.timestamp]
    /\ rtasks' = [rtasks EXCEPT ![i].pc = "sleep", ![i].data = None, ![i].rows = {},
                                ![i].wakeAt = now + ParseTimeframe(rtasks[i].timeframe),
                                ![i].erred = TRUE]
    /\ UNCHANGED <<now, tzOffset, redisEnabled, symbolsCfg, intervalsCfg, limits, delivered, clockSteps, restarts,
                   wsVars, mgrVars, dbVars, cacheVars,
                   rsRunning, rsTasks, rsStop, alVars, histVars>>

\* db.insert_ohlc raises (storage failure, or an IntegrityError): logged by
\* the loop's except Exception; the bucket is not remembered.
RsWriteFail(i) ==
    /\ rtasks[i].pc = "write"
    /\ ~rtasks[i].cancel
    /\ IF InsertOhlcRaises(dbOhlc, rtasks[i].data)
       THEN UNCHANGED faults
       ELSE faults < limits.faults /\ faults' = faults + 1
    /\ rtasks' = [rtasks EXCEPT ![i].pc = "sleep", ![i].data = None, ![i].rows = {},
                                ![i].wakeAt = now + ParseTimeframe(rtasks[i].timeframe),
                                ![i].erred = TRUE]
    /\ UNCHANGED <<now, tzOffset, redisEnabled, symbolsCfg, intervalsCfg, limits, delivered, clockSteps, restarts,
                   wsVars, mgrVars, dbVars, cacheVars,
                   rsRunning, rsTasks, currentCandles, rsStop, alVars, histVars>>

\* task.cancel() was called on a resampling task.
RsCancelled(i) ==
    /\ rtasks[i].cancel
    /\ rtasks[i].pc # "done"
    /\ rtasks' = [rtasks EXCEPT ![i].pc = "done", ![i].data = None, ![i].rows = {}, ![i].wakeAt = 0]
    /\ UNCHANGED <<envVars, wsVars, mgrVars, dbVars, cacheVars,
                   rsRunning, rsTasks, currentCandles, rsStop, alVars, histVars>>

\* The clock moves on.
ClockAdvance(d) ==
    /\ clockSteps < MaxClock
    /\ clockSteps' = clockSteps + 1
    /\ now' = now + d
    /\ UNCHANGED <<tzOffset, redisEnabled, symbolsCfg, intervalsCfg, limits, delivered, faults, restarts,
                   progVars, histVars>>

\* The process ends and a new one starts over the same database and cache
\* server: every object is constructed anew.
ProcessRestart ==
    /\ restarts < MaxRestarts
    /\ restarts' = restarts + 1
    /\ wsRunning' = FALSE
    /\ wsSymbols' = symbolsCfg
    /\ wsTasks' = <<>>
    /\ tasks' = <<>>
    /\ connections' = [s \in AllSymbols |-> 0]
    /\ mgrRunning' = FALSE
    /\ mgrSymbols' = symbolsCfg
    /\ tickBuffer' = <<>>
    /\ batch' = NoTask
    /\ mgrStop' = NoStop
    /\ rsRunning' = FALSE
    /\ rsTasks' = <<>>
    /\ rtasks' = <<>>
    /\ currentCandles' = [k \in Keys |-> NoTimestamp]
    /\ rsStop' = "idle"
    /\ alRunning' = FALSE
    /\ alTask' = NoTask
    /\ triggeredAlerts' = <<>>
    /\ alStop' = "idle"
    /\ written' = [k \in Keys |-> <<>>]
    /\ idleStops' = {}
    /\ sinceFlush' = {}
    /\ retained' = {}
    /\ fired' = <<>>
    /\ apiResult' = NoResult
    /\ UNCHANGED <<now, tzOffset, redisEnabled, symbolsCfg, intervalsCfg, limits, delivered, faults, clockSteps,
                   dbVars, cacheVars>>

\* for task in self.tasks: task.cancel()
CancelRTasks(ts, ids) ==
    [j \in 1..Len(ts) |->
        IF j \in Range(ids) /\ ts[j].pc # "done"
        THEN [ts[j] EXCEPT !.cancel = TRUE]
        ELSE ts[j]]

\* ResamplingEngine.stop on a running engine, up to await gather.
RsStopBegin ==
    /\ rsStop = "idle"
    /\ rsRunning
    /\ rsRunning' = FALSE
    /\ rtasks' = CancelRTasks(rtasks, rsTasks)
    /\ rsStop' = "gather"
    /\ UNCHANGED <<envVars, wsVars, mgrVars, dbVars, cacheVars, rsTasks, currentCandles,
                   alVars, histVars>>

\* A stop() that returns without waiting for its tasks to finish.
RsStopNoGather ==
    /\ rsStop = "gather"
    /\ rsTasks' = <<>>
    /\ rsStop' = "idle"
    /\ UNCHANGED <<envVars, wsVars, mgrVars, dbVars, cacheVars, rsRunning, rtasks,
                   currentCandles, alVars, histVars>>

\* gather returns: self.tasks.clear(), stop() returns.
RsStopGatherDone ==
    /\ rsStop = "gather"
    /\ \A j \in Range(rsTasks) : rtasks[j].pc = "done"
    /\ rsTasks' = <<>>
    /\ rsStop' = "idle"
    /\ UNCHANGED <<envVars, wsVars, mgrVars, dbVars, cacheVars, rsRunning, rtasks,
                   currentCandles, alVars, histVars>>

\* ------------------------------------------------------------ alert engine
\* Observed values and thresholds are decimals in units of 1/Scale, so that
\* 100.00005 is 10000005 and the tolerance 0.0001 is EPSILON.
Scale == 100000
EPSILON == 10
MAX_TRIGGERED == 100
Abs(x) == IF x < 0 THEN 0 - x ELSE x

\* seq[start:] of Python for an integer start.
PySliceFrom(q, start) ==
    LET from == IF start < 0
                THEN (IF Len(q) + start < 0 THEN 0 ELSE Len(q) + start)
                ELSE Min(start, Len(q))
    IN  SubSeq(q, from + 1, Len(q))

\* An equality test that accepts a difference of exactly the tolerance.
EvaluateConditionLoose(value, condition, threshold) ==
    IF condition = ">" THEN value > threshold
    ELSE IF condition = "<" THEN value < threshold
    ELSE IF condition = ">=" THEN value >= threshold
    ELSE IF condition = "<=" THEN value <= threshold
    ELSE IF condition = "==" THEN Abs(value - threshold) <= EPSILON
    ELSE FALSE

\* AlertEngine._evaluate_condition
EvaluateCondition(value, condition, threshold) ==
    IF condition = ">" THEN value > threshold
    ELSE IF condition = "<" THEN value < threshold
    ELSE IF condition = ">=" THEN value >= threshold
    ELSE IF condition = "<=" THEN value <= threshold
    ELSE IF condition = "==" THEN Abs(value - threshold) < EPSILON
    ELSE FALSE

\* Database.create_alert, called by POST /alerts: the row gets the next id.
AlertRow(alert_data) ==
    [id |-> Len(dbAlerts) + 1, name |-> alert_data.name, symbol |-> alert_data.symbol,
     metric |-> alert_data.metric, condition |-> alert_data.condition,
     threshold |-> alert_data.threshold, is_active |-> 1, last_triggered |-> NoTimestamp]

CreateAlert(alert_data) ==
    /\ Len(dbAlerts) < MaxAlerts
    /\ dbAlerts' = Append(dbAlerts, AlertRow(alert_data))
    /\ UNCHANGED <<envVars, wsVars, mgrVars, dbTicks, dbOhlc, cacheVars, rsVars, alVars, histVars>>

\* Database.get_alerts(active_only=True)
GetAlerts == SelectSeq(dbAlerts, LAMBDA a : a.is_active = 1)

\* Database.update_alert_trigger
UpdateAlertTrigger(table, alert_id) ==
    [j \in 1..Len(table) |->
        IF table[j].id = alert_id
        THEN [table[j] EXCEPT !.last_triggered = now]
        ELSE table[j]]

\* What an analytics function returned to _evaluate_alert: a record with the
\* field read (value v), or one with an error indication.
NoValue == [has |-> FALSE, v |-> 0]
Value(v) == [has |-> TRUE, v |-> v]

\* The metric value of _evaluate_alert. price: the newest cached tick;
\* z_score, volume, volatility: the field of the analytics result src, if
\* it is there; any other metric: None.
MetricValue(alert, src) ==
    IF alert.metric = "price"
    THEN LET recent_ticks == GetRecentTicks(alert.symbol, 1)
         IN  IF recent_ticks # <<>>
             THEN Value(recent_ticks[Len(recent_ticks)].price * Scale)
             ELSE NoValue
    ELSE IF alert.metric = "z_score"
    THEN IF alert.symbol = "btcusdt_ethusdt" THEN src ELSE NoValue
    ELSE IF alert.metric \in {"volume", "volatility"}
    THEN src
    ELSE NoValue

NoTrigger == [hit |-> FALSE, raised |-> FALSE]
TriggerOf(alert, value) ==
    [hit |-> TRUE, raised |-> FALSE, alert_id |-> alert.id, alert_name |-> alert.name,
     symbol |-> alert.symbol, metric |-> alert.metric, value |-> value,
     condition |-> alert.condition, threshold |-> alert.threshold,
     timestamp |-> now, n |-> Len(fired) + 1]

\* An _evaluate_alert without its try/except: the exception reaches the loop.
EvaluateAlertUncaught(alert, raises, src) ==
    IF raises
    THEN [hit |-> FALSE, raised |-> TRUE]
    ELSE IF MetricValue(alert, src).has
            /\ EvaluateCondition(MetricValue(alert, src).v, alert.condition, alert.threshold)
         THEN TriggerOf(alert, MetricValue(alert, src).v)
         ELSE NoTrigger

\* AlertEngine._evaluate_alert: the trigger data, or None; an exception
\* raised inside (raises) is logged and None returned. n is the identity
\* of the trigger object.
EvaluateAlert(alert, raises, src) ==
    IF raises
    THEN NoTrigger
    ELSE IF MetricValue(alert, src).has
            /\ EvaluateCondition(MetricValue(alert, src).v, alert.condition, alert.threshold)
         THEN TriggerOf(alert, MetricValue(alert, src).v)
         ELSE NoTrigger

\* An append that never trims.
RingAppendNoTrim(ring, trigger) == Append(ring, trigger)

\* self.triggered_alerts.append(trigger), then the cut to the last 100.
RingAppend(ring, trigger) ==
    IF Len(ring) + 1 > MAX_TRIGGERED
    THEN PySliceFrom(Append(ring, trigger), 0 - MAX_TRIGGERED)
    ELSE Append(ring, trigger)

\* The evaluation task. alerts, idx and trigger are the locals of
\* _evaluation_loop; live, evaluated, raised and recorded are history of the
\* cycle under way: the alerts whose price condition held when the cycle
\* loaded them, those evaluated, those whose evaluation raised, those whose
\* trigger was stored and appended and those whose storage update raised.
NewAlTask ==
    [pc |-> "new", all_ticks |-> <<>>, cancel |-> FALSE, alerts |-> <<>>, idx |-> 0,
     trigger |-> NoTrigger, live |-> {}, evaluated |-> {}, raised |-> {}, recorded |-> {},
     failed |-> {}]

\* The alert's condition holds on the metric read from the cache now.
ConditionHolds(alert) ==
    /\ alert.metric = "price"
    /\ MetricValue(alert, NoValue).has
    /\ EvaluateCondition(MetricValue(alert, NoValue).v, alert.condition, alert.threshold)

\* AlertEngine.start
AlStart ==
    /\ alStop = "idle"
    /\ ~alRunning
    /\ alRunning' = TRUE
    /\ alTask' = NewAlTask
    /\ idleStops' = idleStops \ {"alerts"}
    /\ UNCHANGED <<envVars, wsVars, mgrVars, dbVars, cacheVars, rsVars,
                   triggeredAlerts, alStop, sinceFlush, retained, written, fired, apiResult>>

\* One cycle of _evaluation_loop over a storage that holds no alert
\* definition: db.get_alerts returns [], then asyncio.sleep(5).
AlCycle ==
    /\ alTask.pc \in {"new", "sleep"}
    /\ ~alTask.cancel
    /\ alTask' = [alTask EXCEPT !.pc = IF alRunning THEN "sleep" ELSE "done"]
    /\ UNCHANGED <<envVars, wsVars, mgrVars, dbVars, cacheVars, rsVars,
                   alRunning, triggeredAlerts, alStop, histVars>>

\* while self.running, at the task's first scheduling or when a sleep
\* returns: await db.get_alerts, or the coroutine returns.
AlBegin ==
    /\ alTask.pc \in {"new", "sleep", "error_sleep"}
    /\ ~alTask.cancel
    /\ alTask' = IF alRunning
                 THEN [NewAlTask EXCEPT !.pc = "load"]
                 ELSE [alTask EXCEPT !.pc = "done"]
    /\ UNCHANGED <<envVars, wsVars, mgrVars, dbVars, cacheVars, rsVars,
                   alRunning, triggeredAlerts, alStop, histVars>>

\* for alert in alerts: the next alert is evaluated, or the cycle ends with
\* await asyncio.sleep(5).
AlAdvance(task) ==
    IF task.idx < Len(task.alerts)
    THEN [task EXCEPT !.pc = "evaluate", !.idx = @ + 1, !.trigger = NoTrigger]
    ELSE [task EXCEPT !.pc = "sleep", !.trigger = NoTrigger]

\* db.get_alerts returns the active alerts (ok), or raises: the loop's
\* except logs and sleeps.
AlLoad(ok) ==
    /\ alTask.pc = "load"
    /\ ~alTask.cancel
    /\ IF ok
       THEN /\ alTask' = AlAdvance([alTask EXCEPT
                            !.alerts = GetAlerts,
                            !.live = {GetAlerts[j].id : j \in {k \in 1..Len(GetAlerts) :
                                                                 ConditionHolds(GetAlerts[k])}}])
            /\ UNCHANGED faults
       ELSE /\ faults < limits.faults
            /\ faults' = faults + 1
            /\ alTask' = [alTask EXCEPT !.pc = "error_sleep"]
    /\ UNCHANGED <<now, tzOffset, redisEnabled, symbolsCfg, intervalsCfg, limits, delivered, clockSteps, restarts,
                   wsVars, mgrVars, dbVars, cacheVars, rsVars,
                   alRunning, triggeredAlerts, alStop, histVars>>

\* await self._evaluate_alert(alert) returns. With a trigger,
\* db.update_alert_trigger is awaited; without, the loop goes on.
AlEvaluate(raises, src) ==
    /\ alTask.pc = "evaluate"
    /\ ~alTask.cancel
    /\ IF raises THEN faults < limits.faults /\ faults' = faults + 1
                 ELSE UNCHANGED faults
    /\ LET alert == alTask.alerts[alTask.idx]
           trigger == EvaluateAlert(alert, raises, src)
           seen == [alTask EXCEPT !.evaluated = @ \cup {alert.id},
                                  !.raised = IF raises THEN @ \cup {alert.id} ELSE @]
       IN  IF trigger.raised
           THEN alTask' = [seen EXCEPT !.pc = "error_sleep"]
           ELSE IF trigger.hit
           THEN /\ Len(fired) < limits.triggers
                /\ alTask' = [seen EXCEPT !.pc = "update", !.trigger = trigger]
           ELSE alTask' = AlAdvance(seen)
    /\ UNCHANGED <<now, tzOffset, redisEnabled, symbolsCfg, intervalsCfg, limits, delivered, clockSteps, restarts,
                   wsVars, mgrVars, dbVars, cacheVars, rsVars,
                   alRunning, triggeredAlerts, alStop, histVars>>

\* db.update_alert_trigger returns: the trigger is appended and the list
\* cut to its last 100; or it raises: the loop's except logs and sleeps.
AlUpdate(ok) ==
    /\ alTask.pc = "update"
    /\ ~alTask.cancel
    /\ IF ok
       THEN /\ dbAlerts' = UpdateAlertTrigger(dbAlerts, alTask.alerts[alTask.idx].id)
            /\ triggeredAlerts' = RingAppend(triggeredAlerts, alTask.trigger)
            /\ fired' = Append(fired, alTask.trigger)
            /\ alTask' = AlAdvance([alTask EXCEPT
                            !.recorded = @ \cup {alTask.alerts[alTask.idx].id}])
            /\ UNCHANGED faults
       ELSE /\ faults < limits.faults
            /\ faults' = faults + 1
            /\ alTask' = [alTask EXCEPT !.pc = "error_sleep", !.trigger = NoTrigger,
                                        !.failed = @ \cup {alTask.alerts[alTask.idx].id}]
            /\ UNCHANGED <<dbAlerts, triggeredAlerts, fired>>
    /\ UNCHANGED <<now, tzOffset, redisEnabled, symbolsCfg, intervalsCfg, limits, delivered, clockSteps, restarts,
                   wsVars, mgrVars, dbTicks, dbOhlc, cacheVars, rsVars,
                   alRunning, alStop, sinceFlush, retained, written, idleStops, apiResult>>

\* AlertEngine.get_recent_triggers, called by a consumer.
GetRecentTriggers(limit) == PySliceFrom(triggeredAlerts, 0 - limit)

AlGetRecentTriggers(limit) ==
    /\ apiResult' = [call |-> "get_recent_triggers", arg |-> limit,
                     value |-> GetRecentTriggers(limit)]
    /\ UNCHANGED <<envVars, progVars, sinceFlush, retained, written, idleStops, fired>>

\* evaluation_task.cancel() was called.
AlCancelled ==
    /\ alTask.cancel
    /\ alTask.pc \notin {"done", "none"}
    /\ alTask' = [alTask EXCEPT !.pc = "done"]
    /\ UNCHANGED <<envVars, wsVars, mgrVars, dbVars, cacheVars, rsVars,
                   alRunning, triggeredAlerts, alStop, histVars>>

\* AlertEngine.stop on a running engine, up to await self.evaluation_task.
AlStopBegin ==
    /\ alStop = "idle"
    /\ alRunning
    /\ alRunning' = FALSE
    /\ alTask' = CancelBatch(alTask)
    /\ alStop' = "await_task"
    /\ UNCHANGED <<envVars, wsVars, mgrVars, dbVars, cacheVars, rsVars,
                   triggeredAlerts, histVars>>

AlStopDone ==
    /\ alStop = "await_task"
    /\ alTask.pc \in {"done", "none"}
    /\ alStop' = "idle"
    /\ UNCHANGED <<envVars, wsVars, mgrVars, dbVars, cacheVars, rsVars,
                   alRunning, alTask, triggeredAlerts, histVars>>

\* ------------------------------------------------- stop(), as called
\* if not self.running: return
StopReturnsAtOnce(component) ==
    /\ idleStops' = idleStops \cup {component}
    /\ UNCHANGED <<envVars, progVars, sinceFlush, retained, written, fired, apiResult>>

\* A manager stop() without the running guard: it goes on to cancel and
\* await the batch task and to flush.
MgrStopUnguarded ==
    /\ batch' = CancelBatch(batch)
    /\ mgrStop' = [NoStop EXCEPT !.pc = "await_batch", !.caller = "manager"]
    /\ idleStops' = idleStops \cup {"manager"}
    /\ UNCHANGED <<envVars, wsVars, mgrRunning, mgrSymbols, tickBuffer,
                   dbVars, cacheVars, rsVars, alVars, sinceFlush, retained, written, fired, apiResult>>

\* What each stop() does when its component is not running.
WsStopNotRunning == StopReturnsAtOnce("client")
MgrStopNotRunning == StopReturnsAtOnce("manager")
RsStopNotRunning == StopReturnsAtOnce("resampler")
AlStopNotRunning == StopReturnsAtOnce("alerts")

\* BinanceWebSocketClient.stop / IngestionManager.stop /
\* ResamplingEngine.stop / AlertEngine.stop, from the call to the first await
\* or the return.
WsStop ==
    /\ mgrStop.pc = "idle"
    /\ IF wsRunning THEN WsStopBegin ELSE WsStopNotRunning

MgrStop ==
    /\ mgrStop.pc = "idle"
    /\ IF mgrRunning THEN MgrStopBegin ELSE MgrStopNotRunning

RsStop ==
    /\ rsStop = "idle"
    /\ IF rsRunning THEN RsStopBegin ELSE RsStopNotRunning

AlStop ==
    /\ alStop = "idle"
    /\ IF alRunning THEN AlStopBegin ELSE AlStopNotRunning

\* -------------------------------------------------------- analytics engine
\* Every function of the analytics engine reads storage and computes on what
\* it read; none writes.  A call is cut at its storage reads.  What storage
\* answers is abstracted to the number of rows, the number of rows of two
\* series that share a timestamp, and whether pandas / statsmodels /
\* scikit-learn raise on the data ("first": in the first computation of the
\* call, "second": in the one after the hedge ratio was computed).
DefaultWindow == 20
MIN_POINTS == 10
ADF_MIN_POINTS == 50
AnalyticsFunctions ==
    {"compute_basic_stats", "compute_volatility", "compute_hedge_ratio",
     "compute_spread_and_zscore", "compute_rolling_correlation",
     "compute_adf_test", "compute_spread_adf_test", "compute_spread_from_ticks"}
RowCounts == {0, MIN_POINTS - 1, DefaultWindow - 1, ADF_MIN_POINTS - 1, ADF_MIN_POINTS}
Fails == {"no", "first", "second"}

\* What db.get_ohlc / db.get_ticks answer: an exception or a list of rows.
StorageRaises == [raised |-> TRUE, rows |-> 0]
Rows(n) == [raised |-> FALSE, rows |-> n]
StorageAnswers == {StorageRaises} \cup {Rows(n) : n \in RowCounts}

\* How the body of a function ends: at a return with a result record, at a
\* return with {'error': ...}, or with an exception; Await while it still
\* waits for storage.
Await == [kind |-> "await", error |-> ""]
Result == [kind |-> "result", error |-> ""]
Error(msg) == [kind |-> "error", error |-> msg]
Raise(msg) == [kind |-> "exception", error |-> msg]

\* try: ... except Exception as e: return {'error': str(e)}
Uncaught(ended) == ended
Caught(ended) == IF ended.kind = "exception" THEN Error(ended.error) ELSE ended

\* len(merged): the rows of the two series that share a timestamp.
Aligned(call, i, j) == Min(call.aligned, Min(call.reads[i].rows, call.reads[j].rows))

\* The two reads reads[i], reads[j] made one after the other.
TwoReads(call, i, j, then) ==
    IF Len(call.reads) < i THEN Await
    ELSE IF call.reads[i].raised THEN Raise("storage")
    ELSE IF Len(call.reads) < j THEN Await
    ELSE IF call.reads[j].raised THEN Raise("storage")
    ELSE then

\* The records compute_basic_stats returns carry 'stats': the provenance of
\* a result, None with an error; a result from ticks has 'timeframe': 'tick'.
StatsResult(timeframe, stats) ==
    [kind |-> "result", error |-> "", timeframe |-> timeframe, stats |-> stats]
StatsError(msg) == [kind |-> "error", error |-> msg, timeframe |-> "", stats |-> "None"]
CaughtStats(ended) ==
    IF ended.kind = "exception" THEN StatsError(ended.error) ELSE ended

compute_basic_stats_no_fallback(call) ==
    CaughtStats(
        IF Len(call.reads) < 1 THEN Await
        ELSE IF call.reads[1].raised THEN Raise("storage")
        ELSE IF call.reads[1].rows = 0 \/ call.reads[1].rows < call.arg
             THEN StatsError("Insufficient data")
        ELSE IF call.fails = "first" THEN Raise("computation")
        ELSE StatsResult("1m", "computed_from_ohlc"))
compute_basic_stats(call) ==
    CaughtStats(
        IF Len(call.reads) < 1 THEN Await
        ELSE IF call.reads[1].raised THEN Raise("storage")
        ELSE IF call.reads[1].rows = 0 \/ call.reads[1].rows < call.arg
        THEN \* fall back to the ticks
             IF Len(call.reads) < 2 THEN Await
             ELSE IF call.reads[2].raised THEN Raise("storage")
             ELSE IF call.reads[2].rows = 0 \/ call.reads[2].rows < call.arg
                  THEN StatsError("Insufficient data")
             ELSE IF call.fails = "first" THEN Raise("computation")
             ELSE StatsResult("tick", "computed_from_ticks")
        ELSE IF call.fails = "first" THEN Raise("computation")
        ELSE StatsResult("1m", "computed_from_ohlc"))

\* The timeframe a call was made with; the routes default it to "1m".
TimeframeOf(call) == IF "timeframe" \in DOMAIN call THEN call.timeframe ELSE <<"1", "m">>

\* periods_per_year = 365 * 24 * (60 if timeframe.endswith('m') else 1)
EndsWith(timeframe, c) == Len(timeframe) > 0 /\ timeframe[Len(timeframe)] = c
PeriodsPerYear(timeframe) == 365 * 24 * (IF EndsWith(timeframe, "m") THEN 60 ELSE 1)
VolatilityResult(timeframe) ==
    [kind |-> "result", error |-> "", timeframe |-> timeframe,
     periods_per_year |-> PeriodsPerYear(timeframe)]

compute_volatility(call) ==
    Caught(
        IF Len(call.reads) < 1 THEN Await
        ELSE IF call.reads[1].raised THEN Raise("storage")
        ELSE IF call.reads[1].rows = 0 \/ call.reads[1].rows < call.arg
             THEN Error("Insufficient data")
        ELSE IF call.fails = "first" THEN Raise("computation")
        ELSE VolatilityResult(TimeframeOf(call)))

\* Candle rows as the regression uses them: a timestamp (the index of the
\* minute) and a close.  An answer of storage that carries its rows:
Candles(series) == [raised |-> FALSE, rows |-> Len(series), data |-> series]
HasData(answer) == "data" \in DOMAIN answer

\* pd.merge(df1[['timestamp','close']], df2[['timestamp','close']],
\*          on='timestamp', suffixes=('_1','_2')): the inner join, in the
\* order of the left frame.
MergeRow(row, df2) ==
    LET same == SelectSeq(df2, LAMBDA q : q.timestamp = row.timestamp)
    IN  [k \in 1..Len(same) |->
            [timestamp |-> row.timestamp, close_1 |-> row.close, close_2 |-> same[k].close]]
RECURSIVE MergeOnTimestamp(_, _)
MergeOnTimestamp(df1, df2) ==
    IF df1 = <<>> THEN <<>>
    ELSE MergeRow(Head(df1), df2) \o MergeOnTimestamp(Tail(df1), df2)

\* LinearRegression().fit(X, y) with X = close_2 and y = close_1, and the
\* R-squared computed from its prediction, in closed form.  Results are in
\* thousandths.  A constant X gives coefficient 0; a constant y makes the
\* R-squared 0/0, NaN.
Milli == 1000
SumX(m) == SeqSum([i \in 1..Len(m) |-> m[i].close_2])
SumY(m) == SeqSum([i \in 1..Len(m) |-> m[i].close_1])
Sxx(m) == Len(m) * SeqSum([i \in 1..Len(m) |-> m[i].close_2 * m[i].close_2]) - SumX(m) * SumX(m)
Syy(m) == Len(m) * SeqSum([i \in 1..Len(m) |-> m[i].close_1 * m[i].close_1]) - SumY(m) * SumY(m)
Sxy(m) == Len(m) * SeqSum([i \in 1..Len(m) |-> m[i].close_2 * m[i].close_1]) - SumX(m) * SumY(m)
Coef(num, den) == IF den = 0 THEN 0 ELSE (num * Milli) \div den
LinearRegressionSwapped(m) ==
    [coef |-> Coef(Sxy(m), Syy(m)),
     intercept |-> (SumX(m) * Milli - Coef(Sxy(m), Syy(m)) * SumY(m)) \div Len(m),
     r_squared |-> IF Sxx(m) = 0 THEN NaN
                   ELSE (Coef(Sxy(m), Sxx(m)) * Coef(Sxy(m), Syy(m))) \div Milli]
LinearRegression(m) ==
    [coef |-> Coef(Sxy(m), Sxx(m)),
     intercept |-> (SumY(m) * Milli - Coef(Sxy(m), Sxx(m)) * SumX(m)) \div Len(m),
     r_squared |-> IF Syy(m) = 0 THEN NaN
                   ELSE (Coef(Sxy(m), Sxx(m)) * Coef(Sxy(m), Syy(m))) \div Milli]

HedgeResult(merged, model) ==
    [kind |-> "result", error |-> "", hedge_ratio |-> model.coef,
     intercept |-> model.intercept, r_squared |-> model.r_squared,
     data_points |-> Len(merged)]

\* compute_hedge_ratio from the two lists storage returned.
HedgeRatioFromDataUnaligned(data1, data2, fails) ==
    IF data1 = <<>> \/ data2 = <<>> \/ Len(data1) < MIN_POINTS \/ Len(data2) < MIN_POINTS
    THEN Error("Insufficient data")
    ELSE IF fails = "first" THEN Raise("computation")
    ELSE HedgeResult(MergeOnTimestamp(data1, data2),
                     LinearRegression(MergeOnTimestamp(data1, data2)))
HedgeRatioFromData(data1, data2, fails) ==
    IF data1 = <<>> \/ data2 = <<>> \/ Len(data1) < MIN_POINTS \/ Len(data2) < MIN_POINTS
    THEN Error("Insufficient data")
    ELSE IF Len(MergeOnTimestamp(data1, data2)) < MIN_POINTS
         THEN Error("Insufficient aligned data")
    ELSE IF fails = "first" THEN Raise("computation")
    ELSE HedgeResult(MergeOnTimestamp(data1, data2),
                     LinearRegression(MergeOnTimestamp(data1, data2)))

\* With answers that carry their rows the function computes on them; with
\* answers abstracted to counts only its control flow is followed.
compute_hedge_ratio(call) ==
    Caught(TwoReads(call, 1, 2,
        IF HasData(call.reads[1]) /\ HasData(call.reads[2])
        THEN HedgeRatioFromData(call.reads[1].data, call.reads[2].data, call.fails)
        ELSE IF \/ call.reads[1].rows = 0 \/ call.reads[2].rows = 0
                \/ call.reads[1].rows < MIN_POINTS \/ call.reads[2].rows < MIN_POINTS
        THEN Error("Insufficient data")
        ELSE IF Aligned(call, 1, 2) < MIN_POINTS THEN Error("Insufficient aligned data")
        ELSE IF call.fails = "first" THEN Raise("computation")
        ELSE Result))

\* The spread of every merged row, merged['close_1'] - hedge_ratio *
\* merged['close_2'], in thousandths (the hedge ratio is in thousandths).
SpreadSeries(merged, hedge_ratio) ==
    [k \in 1..Len(merged) |-> merged[k].close_1 * Milli - hedge_ratio * merged[k].close_2]
Mean(q) == SeqSum(q) \div Len(q)
RECURSIVE ISqrtIn(_, _, _)
ISqrtIn(x, lo, hi) ==
    IF lo >= hi THEN lo
    ELSE IF ((lo + hi + 1) \div 2) * ((lo + hi + 1) \div 2) <= x
         THEN ISqrtIn(x, (lo + hi + 1) \div 2, hi)
         ELSE ISqrtIn(x, lo, ((lo + hi + 1) \div 2) - 1)
ISqrt(x) == ISqrtIn(x, 0, Min(x, 46340))
\* Series.std(): the sample standard deviation (ddof = 1); NaN for one row.
StdOf(q) ==
    IF Len(q) < 2 THEN NaN
    ELSE ISqrt(SeqSum([k \in 1..Len(q) |-> (q[k] - Mean(q)) * (q[k] - Mean(q))])
               \div (Len(q) - 1))
\* The z-score of the last row over rolling(window): NaN (the empty
\* sequence) with fewer rows than the window, and 0/0 for a constant
\* window; else the number, in thousandths, in a sequence of one.
ZScoreOfLast(spread, window) ==
    IF Len(spread) < window THEN <<>>
    ELSE LET last == SubSeq(spread, Len(spread) - window + 1, Len(spread))
         IN  IF StdOf(last) = 0 \/ StdOf(last) = NaN THEN <<>>
             ELSE << ((spread[Len(spread)] - Mean(last)) * Milli) \div StdOf(last) >>
\* latest = merged.iloc[-1]: the last row of the merged frame.
SpreadResult(merged, hedge_ratio, window) ==
    [kind |-> "result", error |-> "", hedge_ratio |-> hedge_ratio,
     current_spread |-> SpreadSeries(merged, hedge_ratio)[Len(merged)],
     spread_mean |-> Mean(SpreadSeries(merged, hedge_ratio)),
     spread_std |-> StdOf(SpreadSeries(merged, hedge_ratio)),
     current_zscore |-> ZScoreOfLast(SpreadSeries(merged, hedge_ratio), window),
     timestamp |-> merged[Len(merged)].timestamp,
     price1 |-> merged[Len(merged)].close_1,
     price2 |-> merged[Len(merged)].close_2,
     window |-> window]
\* The part of compute_spread_and_zscore after the hedge ratio, from the two
\* lists its own reads returned.
SpreadFromData(hedge_ratio, data1, data2, window, fails) ==
    IF data1 = <<>> \/ data2 = <<>> THEN Raise("KeyError")
    ELSE IF MergeOnTimestamp(data1, data2) = <<>> THEN Raise("IndexError")
    ELSE IF fails = "second" THEN Raise("computation")
    ELSE SpreadResult(MergeOnTimestamp(data1, data2), hedge_ratio, window)

\* An empty list makes a frame without columns: df['timestamp'] raises
\* KeyError; merged.iloc[-1] of an empty frame raises IndexError.
compute_spread_and_zscore(call) ==
    Caught(
        LET hedge_result == compute_hedge_ratio(call)
        IN  IF hedge_result.kind # "result" THEN hedge_result
            ELSE TwoReads(call, 3, 4,
                IF HasData(call.reads[3]) /\ HasData(call.reads[4])
                THEN SpreadFromData(hedge_result.hedge_ratio, call.reads[3].data,
                                    call.reads[4].data, call.arg, call.fails)
                ELSE
                IF call.reads[3].rows = 0 \/ call.reads[4].rows = 0 THEN Raise("KeyError")
                ELSE IF Aligned(call, 3, 4) = 0 THEN Raise("IndexError")
                ELSE IF call.fails = "second" THEN Raise("computation")
                ELSE Result))

compute_rolling_correlation(call) ==
    Caught(TwoReads(call, 1, 2,
        IF call.reads[1].rows = 0 \/ call.reads[2].rows = 0 THEN Error("Insufficient data")
        ELSE IF Aligned(call, 1, 2) < call.arg THEN Error("Insufficient aligned data")
        ELSE IF call.fails = "first" THEN Raise("computation")
        ELSE Result))

compute_adf_test(call) ==
    Caught(
        IF Len(call.reads) < 1 THEN Await
        ELSE IF call.reads[1].raised THEN Raise("storage")
        ELSE IF call.reads[1].rows = 0 \/ call.reads[1].rows < ADF_MIN_POINTS
             THEN Error("Insufficient data for ADF test (need at least 50 points)")
        ELSE IF call.fails = "first" THEN Raise("computation")
        ELSE Result)

compute_spread_adf_test(call) ==
    Caught(
        LET hedge_result == compute_hedge_ratio(call)
        IN  IF hedge_result.kind # "result" THEN hedge_result
            ELSE TwoReads(call, 3, 4,
                IF call.reads[3].rows = 0 \/ call.reads[4].rows = 0 THEN Raise("KeyError")
                ELSE IF Aligned(call, 3, 4) < ADF_MIN_POINTS
                     THEN Error("Insufficient data for ADF test")
                ELSE IF call.fails = "second" THEN Raise("computation")
                ELSE Result))

compute_spread_from_ticks(call) ==
    Caught(TwoReads(call, 1, 2,
        IF call.reads[1].rows = 0 \/ call.reads[2].rows = 0 THEN Error("Insufficient tick data")
        ELSE IF call.reads[1].rows < call.arg \/ call.reads[2].rows < call.arg
             THEN Error("Need at least window ticks for each symbol")
        ELSE IF Aligned(call, 1, 2) < call.arg
             THEN Error("Only n aligned data points, need at least window")
        ELSE IF call.fails = "first" THEN Raise("computation")
        ELSE Result))

AnalyticsOutcome(call) ==
    CASE call.call = "compute_basic_stats" -> compute_basic_stats(call)
      [] call.call = "compute_volatility" -> compute_volatility(call)
      [] call.call = "compute_hedge_ratio" -> compute_hedge_ratio(call)
      [] call.call = "compute_spread_and_zscore" -> compute_spread_and_zscore(call)
      [] call.call = "compute_rolling_correlation" -> compute_rolling_correlation(call)
      [] call.call = "compute_adf_test" -> compute_adf_test(call)
      [] call.call = "compute_spread_adf_test" -> compute_spread_adf_test(call)
      [] call.call = "compute_spread_from_ticks" -> compute_spread_from_ticks(call)

\* A consumer calls a function of the analytics engine; the call runs to its
\* first storage read.
AnalyticsInFlight == apiResult.call \in AnalyticsFunctions /\ apiResult.pc = "await"

AnCall(fn, window, aligned, fails) ==
    /\ ~AnalyticsInFlight
    /\ apiResult' = [call |-> fn, arg |-> window, value |-> <<>>, reads |-> <<>>,
                     aligned |-> aligned, fails |-> fails, pc |-> "await"]
    /\ UNCHANGED <<envVars, progVars, sinceFlush, retained, written, idleStops, fired>>

\* Storage answers the read the call waits for; the call runs on to its next
\* read, to its return, or to the exception that leaves it.
AnRead(answer) ==
    /\ AnalyticsInFlight
    /\ LET call == [apiResult EXCEPT !.reads = Append(@, answer)]
           ended == AnalyticsOutcome(call)
       IN  apiResult' =
             IF ended.kind = "await" THEN call
             ELSE [call EXCEPT !.value = <<ended>>,
                               !.pc = IF ended.kind = "exception" THEN "raised"
                                      ELSE "returned"]
    /\ UNCHANGED <<envVars, progVars, sinceFlush, retained, written, idleStops, fired>>

\* Calls of the analytics engine, one at a time, against every answer of
\* storage.
NextAnalytics ==
    \/ \E fn \in AnalyticsFunctions, aligned \in RowCounts, fails \in Fails :
          AnCall(fn, DefaultWindow, aligned, fails)
    \/ \E answer \in StorageAnswers : AnRead(answer)
SpecAnalytics == InitOne /\ [][NextAnalytics]_vars

\* Calls of compute_basic_stats with the windows the routes accept, against
\* candle and tick counts around each window.
MIN_WINDOW == 5
MAX_WINDOW == 100
Windows == {MIN_WINDOW, DefaultWindow, MAX_WINDOW}
WindowCounts == {0} \cup UNION {{w - 1, w, w + 1} : w \in Windows}
NextBasicStats ==
    \/ \E window \in Windows, fails \in {"no", "first"} :
          AnCall("compute_basic_stats", window, 0, fails)
    \/ \E answer \in {StorageRaises} \cup {Rows(n) : n \in WindowCounts} : AnRead(answer)
SpecBasicStats == InitOne /\ [][NextBasicStats]_vars

\* Calls of compute_volatility with timeframes of seconds, minutes, hours
\* and days (the route takes any string).
Timeframes ==
    RESAMPLE_INTERVALS \o << <<"1", "5", "m">>, <<"3", "0", "s">>, <<"1", "h">>, <<"1", "d">> >>
VolatilityCall(timeframe, window, fails) ==
    /\ ~AnalyticsInFlight
    /\ apiResult' = [call |-> "compute_volatility", arg |-> window, value |-> <<>>,
                     reads |-> <<>>, aligned |-> 0, fails |-> fails, pc |-> "await",
                     timeframe |-> timeframe]
    /\ UNCHANGED <<envVars, progVars, sinceFlush, retained, written, idleStops, fired>>
NextVolatility ==
    \/ \E k \in 1..Len(Timeframes), window \in Windows, fails \in {"no", "first"} :
          VolatilityCall(Timeframes[k], window, fails)
    \/ \E answer \in {StorageRaises} \cup {Rows(n) : n \in WindowCounts} : AnRead(answer)
SpecVolatility == InitOne /\ [][NextVolatility]_vars

\* Calls of compute_hedge_ratio against candle series: closes on a line
\* close = base + step * minute, over a run of consecutive minutes.
DefaultLookback == 100
Line(base, step, start, len) ==
    [i \in 1..len |-> [timestamp |-> start + i - 1, close |-> base + step * (start + i - 1)]]
Lines == {<<10, 2>>, <<20, 2>>, <<20, 4>>, <<20, 0>>}
Starts == {0, 1, 2}
Lengths == {0, 4, MIN_POINTS - 1, MIN_POINTS, MIN_POINTS + 1}
CandleSeries == {Line(l[1], l[2], start, len) : l \in Lines, start \in Starts, len \in Lengths}
NextHedge ==
    \/ \E fails \in {"no", "first"} : AnCall("compute_hedge_ratio", DefaultLookback, 0, fails)
    \/ \E answer \in {StorageRaises} \cup {Candles(series) : series \in CandleSeries} :
          AnRead(answer)
SpecHedge == InitOne /\ [][NextHedge]_vars

\* ----------------------------------------------------------- ingestion run
\* The ingestion claims do not read prices: one price is enough there.
TaskStep(i) ==
    \/ TaskStart(i)
    \/ ConnectOk(i)
    \/ ConnectFail(i)
    \/ RecvTrade(i, BasePrice)
    \/ \E ok \in BOOLEAN : CallbackDone(i, ok)
    \/ StreamEnd(i)
    \/ BackoffDone(i)
    \/ TaskCancelled(i)

NextIngest ==
    \/ MgrStart
    \/ \E i \in TaskIds : TaskStep(i)
    \/ BatchStart
    \/ BatchWake
    \/ BatchInsertOk
    \/ BatchInsertFail
    \/ \E committed \in BOOLEAN : BatchCancelled(committed)
    \/ MgrStopBegin
    \/ \E ok \in BOOLEAN : WsStopClose(ok)
    \/ WsStopGatherDone
    \/ MgrStopFlush
    \/ MgrStopFinalOk
    \/ MgrStopFinalFail

SpecIngest == Init /\ [][NextIngest]_vars

\* ---------------------------------------------------------- resampling run
\* One instrument is ingested and resampled while the clock runs; a cache
\* read or a candle write may fail.
NextResample ==
    \/ MgrStart
    \/ \E i \in TaskIds : TaskStart(i)
    \/ \E i \in TaskIds : ConnectOk(i)
    \/ \E i \in TaskIds : RecvTrade(i, BasePrice)
    \/ \E i \in TaskIds : CallbackDone(i, TRUE)
    \/ BatchStart
    \/ BatchWake
    \/ BatchInsertOk
    \/ mgrRunning /\ RsStart(symbolsCfg)
    \/ \E i \in RTaskIds, cacheOk \in BOOLEAN : RsCycle(i, cacheOk, TRUE)
    \/ \E i \in RTaskIds : RsWriteOk(i)
    \/ \E i \in RTaskIds : RsWriteFail(i)
    \/ \E d \in ClockSteps : ClockAdvance(d)

SpecResample == InitOne /\ [][NextResample]_vars

\* The same at the first timeframe only, so that the feed can leave a
\* complete bucket without a trade between two buckets that have one.
SpecSparse == InitOneTimeframe /\ [][NextResample]_vars

\* Ingestion and resampling without I/O failures, across process restarts.
NextRestart ==
    \/ MgrStart
    \/ \E i \in TaskIds : TaskStart(i)
    \/ \E i \in TaskIds : ConnectOk(i)
    \/ \E i \in TaskIds : RecvTrade(i, BasePrice)
    \/ \E i \in TaskIds : CallbackDone(i, TRUE)
    \/ BatchStart
    \/ BatchWake
    \/ BatchInsertOk
    \/ mgrRunning /\ RsStart(symbolsCfg)
    \/ \E i \in RTaskIds : RsCycle(i, TRUE, TRUE)
    \/ \E i \in RTaskIds : RsWriteOk(i)
    \/ \E d \in ClockSteps : ClockAdvance(d)
    \/ ProcessRestart

SpecRestart == InitOneTimeframe /\ [][NextRestart]_vars

\* Every component started and stopped by the application over a silent
\* feed, stop() being callable at any time.
NextLifecycle ==
    \/ MgrStart
    \/ \E i \in TaskIds : TaskStart(i)
    \/ \E i \in TaskIds : ConnectOk(i)
    \/ \E i \in TaskIds : StreamEnd(i)
    \/ \E i \in TaskIds : TaskCancelled(i)
    \/ BatchStart
    \/ BatchWake
    \/ BatchCancelled(FALSE)
    \/ WsStop
    \/ MgrStop
    \/ WsStopClose(TRUE)
    \/ WsStopGatherDone
    \/ MgrStopFlush
    \/ RsStart(symbolsCfg)
    \/ \E i \in RTaskIds : RsCycle(i, TRUE, TRUE)
    \/ \E i \in RTaskIds : RsCancelled(i)
    \/ RsStop
    \/ RsStopGatherDone
    \/ AlStart
    \/ AlCycle
    \/ AlCancelled
    \/ AlStop
    \/ AlStopDone

SpecLifecycle == InitOne /\ [][NextLifecycle]_vars

\* ------------------------------------------------- instrument changes
\* One instrument is tracked at first; instruments are added and removed
\* before and while the manager runs.
NextSymbols ==
    \/ MgrStart
    \/ \E i \in TaskIds : TaskStart(i)
    \/ \E i \in TaskIds : ConnectOk(i)
    \/ \E i \in TaskIds : RecvTrade(i, BasePrice)
    \/ \E i \in TaskIds : CallbackDone(i, TRUE)
    \/ \E i \in TaskIds : StreamEnd(i)
    \/ \E i \in TaskIds : BackoffDone(i)
    \/ \E symbol \in AllSymbols : MgrAddSymbol(symbol)
    \/ \E symbol \in AllSymbols : MgrRemoveSymbol(symbol)

SpecSymbols == InitOne /\ [][NextSymbols]_vars

\* --------------------------------------------------------------- alert run
\* Values an analytics function reports and thresholds a user sets:
\* 100.0, 100.00005, 100.0001, 100.001 and 99.9999.
Threshold100 == 100 * Scale
Values == {Threshold100, Threshold100 + 5, Threshold100 + EPSILON,
           Threshold100 + 100, Threshold100 - EPSILON}
Conditions == {">", "<", ">=", "<=", "==", "!="}
AlertInput(metric, condition) ==
    [name |-> "a", symbol |-> symbols_list[1], metric |-> metric,
     condition |-> condition, threshold |-> Threshold100]

\* One instrument is ingested into the cache while alerts on its price and
\* on its volume are created and evaluated; storage calls and evaluations
\* may fail.
NextAlerts ==
    \/ MgrStart
    \/ \E i \in TaskIds : TaskStart(i)
    \/ \E i \in TaskIds : ConnectOk(i)
    \/ \E i \in TaskIds : RecvTrade(i, BasePrice)
    \/ \E i \in TaskIds : CallbackDone(i, TRUE)
    \/ \E metric \in {"price", "volume"} : CreateAlert(AlertInput(metric, ">="))
    \/ AlStart
    \/ AlBegin
    \/ \E ok \in BOOLEAN : AlLoad(ok)
    \/ \E raises \in BOOLEAN, src \in {NoValue, Value(Threshold100)} : AlEvaluate(raises, src)
    \/ \E ok \in BOOLEAN : AlUpdate(ok)

SpecAlerts == InitOne /\ [][NextAlerts]_vars

\* One alert of any condition is evaluated on every value while consumers
\* read the recent triggers.
NextConditions ==
    \/ \E condition \in Conditions :
         dbAlerts = <<>> /\ CreateAlert(AlertInput("volume", condition))
    \/ AlStart
    \/ AlBegin
    \/ AlLoad(TRUE)
    \/ \E src \in {NoValue} \cup {Value(v) : v \in Values} : AlEvaluate(FALSE, src)
    \/ AlUpdate(TRUE)
    \/ \E limit \in 0..MaxLimit : AlGetRecentTriggers(limit)

SpecConditions == InitOne /\ [][NextConditions]_vars

\* One alert fires in cycle after cycle, MaxFirings times in all.
InitRing ==
    InitEnv(<<symbols_list[1]>>, SubSeq(RESAMPLE_INTERVALS, 1, 1), {TRUE},
            [faults |-> MaxFaults, triggers |-> MaxFirings])

NextRing ==
    \/ dbAlerts = <<>> /\ CreateAlert(AlertInput("volume", ">="))
    \/ AlStart
    \/ AlBegin
    \/ AlLoad(TRUE)
    \/ \E src \in {NoValue, Value(Threshold100)} : AlEvaluate(FALSE, src)
    \/ AlUpdate(TRUE)

SpecRing == InitRing /\ [][NextRing]_vars

\* ------------------------------------------------------- vendor messages
\* The default deployment over streams that carry well-formed and malformed
\* messages.
NextMessages ==
    \/ MgrStart
    \/ \E i \in TaskIds : TaskStart(i)
    \/ \E i \in TaskIds : ConnectOk(i)
    \/ \E i \in TaskIds :
         \E m \in VendorMessages(tasks[i].symbol, BasePrice, delivered + 1) : RecvMessage(i, m)
    \/ \E i \in TaskIds : CallbackDone(i, TRUE)
    \/ BatchStart
    \/ BatchWake
    \/ BatchInsertOk

SpecMessages == Init /\ [][NextMessages]_vars

\* ------------------------------------------------------- reconnection run
\* The default deployment over a feed that keeps failing: connections are
\* refused or dropped up to MaxFailures times.
InitBackoff ==
    InitEnv(symbols_list, RESAMPLE_INTERVALS, {FALSE},
            [faults |-> MaxFailures, triggers |-> MaxTriggers])

NextBackoff ==
    \/ MgrStart
    \/ \E i \in TaskIds : TaskStart(i)
    \/ \E i \in TaskIds : ConnectOk(i)
    \/ \E i \in TaskIds : ConnectFail(i)
    \/ \E i \in TaskIds : RecvTrade(i, BasePrice)
    \/ \E i \in TaskIds : StreamEnd(i)
    \/ \E i \in TaskIds : BackoffDone(i)

SpecBackoff == InitBackoff /\ [][NextBackoff]_vars

\* --------------------------------------------------------------- cache reads
\* The default deployment, with and without a cache: ticks are pushed as
\* they arrive while consumers read the most recent ones.
MaxCount == 3
NextCache ==
    \/ MgrStart
    \/ \E i \in TaskIds : TaskStart(i)
    \/ \E i \in TaskIds : ConnectOk(i)
    \/ \E i \in TaskIds : RecvTrade(i, BasePrice)
    \/ \E i \in TaskIds, ok \in BOOLEAN : CallbackDone(i, ok)
    \/ \E sym \in AllSymbols, count \in 1..MaxCount, ok \in BOOLEAN :
          CacheGetRecentTicks(sym, count, ok)
SpecCache == Init /\ [][NextCache]_vars

\* ------------------------------------------------------------ host time zone
\* The default deployment on a host west of UTC, on UTC, or east of UTC,
\* receiving trades while the clock runs.
SecondsPerHour == SecondsPerDay \div 24
HostOffsets == {0 - SecondsPerHour, 0, SecondsPerHour}
InitHosts == InitHost(symbols_list, RESAMPLE_INTERVALS, BOOLEAN, DefaultLimits, HostOffsets)
NextHosts ==
    \/ MgrStart
    \/ \E i \in TaskIds : TaskStart(i)
    \/ \E i \in TaskIds : ConnectOk(i)
    \/ \E i \in TaskIds : RecvTrade(i, BasePrice)
    \/ \E i \in TaskIds : CallbackDone(i, TRUE)
    \/ \E d \in ClockSteps : ClockAdvance(d)
SpecHosts == InitHosts /\ [][NextHosts]_vars

\* ------------------------------------------------------------ connections
\* The stream client of the default deployment without a cache: connections
\* are refused or dropped, messages arrive, and the application may stop the
\* client at any time.  A sleep that is over returns.
InitConnections ==
    InitEnv(symbols_list, RESAMPLE_INTERVALS, {FALSE},
            [faults |-> MaxFaults + 1, triggers |-> MaxTriggers])
NextConnections ==
    \/ MgrStart
    \/ \E i \in TaskIds : TaskStart(i)
    \/ \E i \in TaskIds : ConnectOk(i)
    \/ \E i \in TaskIds : ConnectFail(i)
    \/ \E i \in TaskIds : RecvTrade(i, BasePrice)
    \/ \E i \in TaskIds : StreamEnd(i)
    \/ \E i \in TaskIds : BackoffDone(i)
    \/ \E i \in TaskIds : TaskCancelled(i)
    \/ WsStopBegin
    \/ \E ok \in BOOLEAN : WsStopClose(ok)
    \/ WsStopGatherDone
FairConnections ==
    \A i \in 1..Len(symbols_list) : WF_vars(i \in TaskIds /\ BackoffDone(i))
SpecConnections == InitConnections /\ [][NextConnections]_vars /\ FairConnections

\* ------------------------------------------------ alerts with and without cache
\* One instrument is ingested into storage, and into the cache where there
\* is one, while a price alert that its price satisfies is evaluated.
InitPriceAlert == InitWith(<<symbols_list[1]>>, SubSeq(RESAMPLE_INTERVALS, 1, 1), BOOLEAN)
NextPriceAlert ==
    \/ MgrStart
    \/ \E i \in TaskIds : TaskStart(i)
    \/ \E i \in TaskIds : ConnectOk(i)
    \/ \E i \in TaskIds, price \in Prices : RecvTrade(i, price)
    \/ \E i \in TaskIds, ok \in BOOLEAN : CallbackDone(i, ok)
    \/ BatchStart
    \/ BatchWake
    \/ BatchInsertOk
    \/ dbAlerts = <<>> /\ CreateAlert(AlertInput("price", ">="))
    \/ AlStart
    \/ AlBegin
    \/ AlLoad(TRUE)
    \/ AlEvaluate(FALSE, NoValue)
    \/ AlUpdate(TRUE)
SpecPriceAlert == InitPriceAlert /\ [][NextPriceAlert]_vars

\* ------------------------------------------------------ resampler restarts
\* One instrument is ingested into the cache while the resampling engine is
\* started, stopped and started again.
NextWriters ==
    \/ MgrStart
    \/ \E i \in TaskIds : TaskStart(i)
    \/ \E i \in TaskIds : ConnectOk(i)
    \/ \E i \in TaskIds : RecvTrade(i, BasePrice)
    \/ \E i \in TaskIds : CallbackDone(i, TRUE)
    \/ \E d \in ClockSteps : ClockAdvance(d)
    \/ RsStart(symbolsCfg)
    \/ \E i \in RTaskIds : RsCycle(i, TRUE, TRUE)
    \/ \E i \in RTaskIds : RsWriteOk(i)
    \/ \E i \in RTaskIds : RsCancelled(i)
    \/ RsStop
    \/ RsStopGatherDone
SpecWriters == InitOneTimeframe /\ [][NextWriters]_vars

\* ------------------------------------------------------------ trade values
\* One instrument is ingested into the buffer, the cache and storage; the
\* vendor's price and size numerals may be positive, zero or negative (all
\* of which float() accepts), or no numeral at all.
NumeralsOf(v) == {Num(v), Num(0), Num(0 - v), Str}
ValuedMessages(sym, k) ==
    {[WellFormed(sym, BasePrice, k) EXCEPT !.p = p, !.q = q] :
        p \in NumeralsOf(BasePrice), q \in NumeralsOf(1)}
NextValues ==
    \/ MgrStart
    \/ \E i \in TaskIds : TaskStart(i)
    \/ \E i \in TaskIds : ConnectOk(i)
    \/ \E i \in TaskIds :
         \E m \in ValuedMessages(tasks[i].symbol, delivered + 1) : RecvMessage(i, m)
    \/ \E i \in TaskIds : CallbackDone(i, TRUE)
    \/ BatchStart
    \/ BatchWake
    \/ BatchInsertOk
SpecValues == InitOne /\ [][NextValues]_vars

\* --------------------------------------------------------------- busy bucket
\* The process starts over a cache and a storage that hold the CACHE_MAX_SIZE
\* trades of the current second, the first of them at a price of its own;
\* further trades arrive, the bucket completes and is resampled.
BusyBucket ==
    [k \in 1..CACHE_MAX_SIZE |->
        [symbol |-> symbols_list[1], timestamp |-> StartNow,
         price |-> IF k = 1 THEN BasePrice + 1 ELSE BasePrice,
         size |-> 1, seq |-> k - CACHE_MAX_SIZE]]
InitBusy ==
    InitOver(<<symbols_list[1]>>, SubSeq(RESAMPLE_INTERVALS, 1, 1), {TRUE}, DefaultLimits,
             {0}, BusyBucket)
NextBusy ==
    \/ MgrStart
    \/ \E i \in TaskIds : TaskStart(i)
    \/ \E i \in TaskIds : ConnectOk(i)
    \/ \E i \in TaskIds : RecvTrade(i, BasePrice)
    \/ \E i \in TaskIds : CallbackDone(i, TRUE)
    \/ RsStart(symbolsCfg)
    \/ \E i \in RTaskIds : RsCycle(i, TRUE, TRUE)
    \/ \E i \in RTaskIds : RsWriteOk(i)
    \/ \E d \in ClockSteps : ClockAdvance(d)
SpecBusy == InitBusy /\ [][NextBusy]_vars

\* ------------------------------------------------- instruments added at run time
\* The application starts the manager and the resampling engine with the
\* configured instrument; POST /symbols then adds instruments while trades
\* arrive and candles are written.
NextTracked ==
    \/ MgrStart
    \/ \E i \in TaskIds : TaskStart(i)
    \/ \E i \in TaskIds : ConnectOk(i)
    \/ \E i \in TaskIds : RecvTrade(i, BasePrice)
    \/ \E i \in TaskIds : CallbackDone(i, TRUE)
    \/ \E symbol \in AllSymbols : MgrAddSymbol(symbol)
    \/ mgrRunning /\ RsStart(symbolsCfg)
    \/ \E i \in RTaskIds : RsCycle(i, TRUE, TRUE)
    \/ \E i \in RTaskIds : RsWriteOk(i)
    \/ \E d \in ClockSteps : ClockAdvance(d)
SpecTracked == InitOneTimeframe /\ [][NextTracked]_vars

\* ------------------------------------------------------ the periodic loops
\* One instrument and one timeframe.  A run exercises one component: the
\* ingestion (connect loop and flush loop), the resampling engine over an
\* empty cache, or the alert engine; any storage or network call of a cycle
\* may fail.  The event loop runs every task that is ready, a sleep that is
\* over returns, and time passes.
InitLoops ==
    InitEnv(<<symbols_list[1]>>, SubSeq(RESAMPLE_INTERVALS, 1, 1), {TRUE},
            [faults |-> MaxFaults, triggers |-> 1])
NextLoops ==
    \/ ~rsRunning /\ ~alRunning /\ dbAlerts = <<>> /\ MgrStart
    \/ \E i \in TaskIds : TaskStart(i)
    \/ \E i \in TaskIds : ConnectOk(i)
    \/ \E i \in TaskIds : ConnectFail(i)
    \/ \E i \in TaskIds : RecvTrade(i, BasePrice)
    \/ \E i \in TaskIds : CallbackDone(i, TRUE)
    \/ \E i \in TaskIds : StreamEnd(i)
    \/ \E i \in TaskIds : BackoffDone(i)
    \/ BatchStart
    \/ BatchWake
    \/ BatchInsertOk
    \/ BatchInsertFail
    \/ ~mgrRunning /\ ~alRunning /\ dbAlerts = <<>> /\ RsStart(symbolsCfg)
    \/ \E i \in RTaskIds, dbOk \in BOOLEAN : RsCycle(i, TRUE, dbOk)
    \/ \E d \in ClockSteps : rsRunning /\ ClockAdvance(d)
    \/ ~mgrRunning /\ ~rsRunning /\ dbAlerts = <<>> /\ CreateAlert(AlertInput("volume", ">="))
    \/ ~mgrRunning /\ ~rsRunning /\ AlStart
    \/ AlBegin
    \/ \E ok \in BOOLEAN : AlLoad(ok)
    \/ \E raises \in BOOLEAN, src \in {NoValue, Value(Threshold100)} : AlEvaluate(raises, src)
    \/ \E ok \in BOOLEAN : AlUpdate(ok)
FairLoops ==
    /\ WF_vars(BatchWake)
    /\ WF_vars(\E i \in TaskIds : BackoffDone(i))
    /\ WF_vars(\E i \in RTaskIds, dbOk \in BOOLEAN : RsCycle(i, TRUE, dbOk))
    /\ WF_vars(\E d \in ClockSteps : rsRunning /\ ClockAdvance(d))
    /\ WF_vars(AlBegin)
SpecLoops == InitLoops /\ [][NextLoops]_vars /\ FairLoops

\* ------------------------------------------------------------ properties
\* The identities of the ticks held in the buffer.
Buffered == Seqs(AllTicks(tickBuffer))
Stored == Seqs(dbTicks)
RKey(i) == <<rtasks[i].symbol, rtasks[i].timeframe>>
HasRow(table, d) == \E a \in 1..Len(table) : SameKey(table[a], d)

\* C1: no tick is lost by the periodic flush: a tick leaves the buffer only
\* in a step after which it is in storage, under every interleaving of the
\* tick callback with the flush task.
C1_NoTickLost ==
    [][\A q \in Buffered : q \notin Buffered' => q \in Stored']_vars

\* C2: when IngestionManager.stop() has returned, the buffer is empty and
\* every tick accepted since the last periodic clear is in storage; the
\* final insert is in flight only with the stream client stopped, every
\* connection task finished and the periodic flush task finished.
StopCompleted == mgrStop.pc = "idle" /\ mgrStop.result = "returned" /\ ~mgrRunning
C2_ShutdownFlush ==
    /\ StopCompleted => (AllTicks(tickBuffer) = <<>> /\ sinceFlush \subseteq Stored)
    /\ mgrStop.pc = "final_insert" =>
            /\ ~wsRunning
            /\ \A j \in TaskIds : tasks[j].pc = "done"
            /\ batch.pc = "done"

C2_Witness ==
    /\ StopCompleted
    /\ sinceFlush # {}
    /\ AllTicks(tickBuffer) = <<>>
    /\ mgrStop.seen # {}

\* C3: a periodic insert_ticks that fails leaves the buffer as it was and the
\* flush loop goes back to sleep, and the insert of a later cycle carries
\* every tick retained from a failed one.
C3_FailedFlushRetains ==
    [][/\ BatchInsertFail =>
            /\ tickBuffer' = tickBuffer
            /\ mgrRunning => batch'.pc = "sleep"
       /\ batch'.pc = "insert" => retained' \subseteq Seqs(batch'.all_ticks)]_vars

C3_Witness ==
    /\ batch.pc = "insert"
    /\ retained # {}
    /\ retained \subseteq Seqs(batch.all_ticks)

\* C4: once BinanceWebSocketClient.stop() has returned, and until a later
\* start, every per-instrument task has finished, the connection map is
\* empty, and no step invokes the tick callback.
WsStopReturned == ~wsRunning /\ mgrStop.pc \notin {"closing", "gather"}
WsQuiet ==
    /\ \A j \in TaskIds : tasks[j].pc = "done"
    /\ \A s \in AllSymbols : connections[s] = 0
    /\ wsTasks = <<>>
C4_StopQuiesces ==
    [][/\ WsStopReturned' => WsQuiet'
       /\ (sinceFlush' \ sinceFlush # {}) => (wsRunning /\ wsRunning')]_vars

C4_Witness ==
    /\ WsStopReturned
    /\ WsQuiet
    /\ mgrStop.seen = {"streaming", "backoff"}

\* C5: stop() of a component that is not running (stream client, ingestion
\* manager, resampling engine, alert engine) changes no component, storage
\* or cache state.
C5_StopIdempotent ==
    [][/\ (~wsRunning /\ WsStop) => UNCHANGED progVars
       /\ (~mgrRunning /\ MgrStop) => UNCHANGED progVars
       /\ (~rsRunning /\ RsStop) => UNCHANGED progVars
       /\ (~alRunning /\ AlStop) => UNCHANGED progVars]_vars

C5_Witness ==
    /\ idleStops = {"client", "manager", "resampler", "alerts"}
    /\ tasks # <<>> /\ batch.pc = "done"
    /\ rtasks # <<>>
    /\ alTask.pc = "done"

C7_AtMostOncePerBucket ==
    \A i \in RTaskIds :
        rtasks[i].pc = "write" =>
            rtasks[i].data.timestamp \notin Range(written[RKey(i)])

\* C8: storage holds at most one candle per (symbol, timeframe, timestamp);
\* an upsert of a key that exists overwrites the row's values without adding
\* a row and does not raise, an upsert of a new key adds one row, and
\* upserting a candle twice equals upserting it once.
C8_UpsertUnique ==
    /\ uix_ohlc(dbOhlc)
    /\ \A i \in RTaskIds :
        (rtasks[i].pc = "write" /\ rtasks[i].data.open # NaN) =>
            LET d == rtasks[i].data
                t == InsertOhlc(dbOhlc, d)
            IN  /\ ~InsertOhlcRaises(dbOhlc, d)
                /\ uix_ohlc(t)
                /\ \E a \in 1..Len(t) : t[a] = d
                /\ Len(t) = IF HasRow(dbOhlc, d) THEN Len(dbOhlc) ELSE Len(dbOhlc) + 1
                /\ InsertOhlc(t, d) = t

C8_Witness ==
    \E k \in Keys :
        /\ Len(written[k]) > Cardinality(Range(written[k]))
        /\ Cardinality({a \in 1..Len(dbOhlc) :
                dbOhlc[a].symbol = k[1] /\ dbOhlc[a].timeframe = k[2]})
             = Cardinality(Range(written[k]))

\* C9: the bucket under which ticks are grouped for a candle is the epoch
\* floor of their timestamps: every tick aggregated into a written candle
\* floors, at the candle's timeframe, to the candle's timestamp.
C9_GroupedByFloor ==
    \A i \in RTaskIds :
        rtasks[i].pc = "write" =>
            \A t \in rtasks[i].rows :
                GetCandleTimestamp(t, rtasks[i].timeframe) = rtasks[i].data.timestamp

\* C10: with no last-persisted bucket remembered for a key, a cycle that
\* fetches ticks and finds a complete bucket issues the upsert of the latest
\* complete one, whether or not storage already holds a candle of that key.
C10_RestartDoesNotSkip ==
    [][\A i \in RTaskIds :
        LET ticks == FetchTicks(rtasks[i].symbol, TRUE)
            complete == CompleteLabels(ticks, rtasks[i].timeframe)
        IN  (/\ rsRunning
             /\ currentCandles[RKey(i)] = NoTimestamp
             /\ rtasks' # rtasks
             /\ RsCycle(i, TRUE, TRUE)
             /\ ticks # <<>>
             /\ complete # {})
            => /\ rtasks'[i].pc = "write"
               /\ rtasks'[i].data.timestamp \in complete
               /\ \A b \in complete : b <= rtasks'[i].data.timestamp]_vars

C10_Witness ==
    \E i \in RTaskIds :
        /\ restarts > 0
        /\ rtasks[i].pc = "write"
        /\ currentCandles[RKey(i)] = NoTimestamp
        /\ HasRow(dbOhlc, rtasks[i].data)

\* C11: for each instrument the delays slept after connection failures that
\* follow one another with no successful connection in between never
\* decrease and never exceed 60, and the delay slept after the first failure
\* that follows a received message is 1.
NonDecreasing(q) == \A a, b \in 1..Len(q) : a <= b => q[a] <= q[b]
C11_BackoffMonotoneReset ==
    [][\A i \in 1..Len(tasks') :
        /\ NonDecreasing(tasks'[i].slept)
        /\ \A a \in 1..Len(tasks'[i].slept) : tasks'[i].slept[a] <= MAX_RECONNECT_DELAY
        /\ (i <= Len(tasks) /\ tasks[i].received
               /\ tasks[i].pc # "backoff" /\ tasks'[i].pc = "backoff")
           => tasks'[i].slept[Len(tasks'[i].slept)] = INITIAL_RECONNECT_DELAY]_vars

\* One instrument has slept the capped delay after its seventh failure in a
\* row while the other sleeps 1 after a failure that followed a message.
C11_Witness ==
    \E i, j \in TaskIds :
        /\ Len(tasks[i].slept) >= 7
        /\ tasks[i].slept[7] = MAX_RECONNECT_DELAY
        /\ tasks[j].pc = "backoff"
        /\ tasks[j].slept = <<INITIAL_RECONNECT_DELAY>>
        /\ \E q \in 1..Len(AllTicks(tickBuffer)) :
              AllTicks(tickBuffer)[q].symbol = tasks[j].symbol

\* C12: once remove_symbol(s) has been called on a running client, the loop
\* of s exits at its next iteration: a message that arrives on the stream of
\* s afterwards is not handed to the tick callback.
NewTicks == {q \in Seqs(AllTicks(tickBuffer')) : q \notin Seqs(AllTicks(tickBuffer))}
SymbolOfSeq(buf, q) ==
    (CHOOSE t \in Range(AllTicks(buf)) : t.seq = q).symbol
C12_RemovedLoopExits ==
    [][\A i \in TaskIds :
        (wsRunning /\ tasks[i].pc = "streaming" /\ tasks[i].symbol \notin Range(wsSymbols))
        => \A q \in NewTicks : SymbolOfSeq(tickBuffer', q) # tasks[i].symbol]_vars

\* C13: add_symbol(s) for an instrument that is not tracked appends s to the
\* tracked list and, on a running client, creates exactly one new connection
\* task for s and leaves the others alone; on a stopped client it creates no
\* task; for a tracked instrument it changes nothing; and start() creates
\* one task for every tracked instrument.
TasksOf(ts, ids, sym) == {j \in Range(ids) : ts[j].symbol = sym}
C13_AddSymbolSafe ==
    [][/\ \A symbol \in AllSymbols : MgrAddSymbol(symbol) =>
            IF symbol \in Range(wsSymbols)
            THEN UNCHANGED <<wsVars, mgrVars>>
            ELSE /\ wsSymbols' = Append(wsSymbols, symbol)
                 /\ \A j \in 1..Len(tasks) : tasks'[j] = tasks[j]
                 /\ IF wsRunning
                    THEN /\ Len(tasks') = Len(tasks) + 1
                         /\ wsTasks' = Append(wsTasks, Len(tasks'))
                         /\ tasks'[Len(tasks')] = NewTask(symbol)
                    ELSE tasks' = tasks /\ wsTasks' = wsTasks
       /\ (MgrStart /\ ~wsRunning) =>
            \A sym \in Range(wsSymbols) :
                /\ Cardinality(TasksOf(tasks', wsTasks', sym)) = 1
                /\ \A j \in TasksOf(tasks', wsTasks', sym) : tasks'[j].pc = "new"]_vars

\* An instrument added while the client was stopped runs in a task created
\* by start(), next to the instrument tracked from the beginning.
C13_Witness ==
    /\ wsRunning
    /\ wsSymbols = <<"btcusdt", "ethusdt">>
    /\ Len(wsTasks) = 2
    /\ \E j \in Range(wsTasks) : tasks[j].symbol = "ethusdt" /\ tasks[j].pc = "streaming"

\* C14: a message that is not valid JSON, is not of type trade, or lacks a
\* numeric price, size or time never reaches the tick callback and leaves
\* the connection open and streaming, with no reconnection; a well-formed
\* trade received on the connection is handed to the callback.
Malformed(m) ==
    \/ ~m.json
    \/ m.e # "trade"
    \/ m.p.kind # "num"
    \/ m.q.kind # "num"
    \/ (m.T.kind # "num" /\ (m.T.kind # "missing" \/ m.E.kind # "num"))
C14_MalformedSkipped ==
    [][\A i \in TaskIds :
        \A m \in VendorMessages(tasks[i].symbol, BasePrice, delivered + 1) :
            (RecvMessage(i, m) /\ wsRunning) =>
                IF Malformed(m)
                THEN /\ tickBuffer' = tickBuffer
                     /\ connections' = connections
                     /\ tasks'[i].pc = "streaming"
                     /\ ~tasks'[i].closed
                     /\ tasks'[i].delay = tasks[i].delay
                     /\ tasks'[i].slept = tasks[i].slept
                ELSE m.s = "missing" \/ m.seq \in Seqs(AllTicks(tickBuffer'))]_vars

\* The second message of a stream is in the buffer and the first one, which
\* arrived on the same connection, is neither there nor in storage (the
\* other stream is not open).
C14_Witness ==
    \E i \in TaskIds :
        /\ delivered = 2
        /\ tasks[i].pc = "streaming"
        /\ connections[tasks[i].symbol] = i
        /\ Seqs(AllTicks(tickBuffer)) = {2}
        /\ dbTicks = <<>>
        /\ AllTicks(tickBuffer)[1].symbol = tasks[i].symbol
        /\ \A j \in TaskIds \ {i} : tasks[j].pc \in {"new", "connecting"}

AlertIds(alerts) == {alerts[j].id : j \in 1..Len(alerts)}
InCycle == alTask.pc \in {"load", "evaluate", "update"}

\* C15: an exception raised while evaluating one alert makes that alert
\* count as not triggered and does not end the cycle: the loop goes on to the
\* next alert, and a cycle that reaches its sleep has evaluated every alert
\* it loaded and has recorded no trigger for an alert whose evaluation raised.
C15_EvaluationFailureIsolated ==
    [][/\ (alTask.pc = "evaluate" /\ AlEvaluate(TRUE, NoValue)) =>
            /\ alTask' = AlAdvance([alTask EXCEPT
                            !.evaluated = @ \cup {alTask.alerts[alTask.idx].id},
                            !.raised = @ \cup {alTask.alerts[alTask.idx].id}])
            /\ UNCHANGED <<triggeredAlerts, dbAlerts, fired>>
       /\ (InCycle /\ alTask'.pc = "sleep") =>
            /\ alTask'.evaluated = AlertIds(alTask'.alerts)
            /\ alTask'.raised \cap alTask'.recorded = {}]_vars

\* A cycle over two alerts has ended in its sleep: the evaluation of the
\* first raised, the second was evaluated and its trigger recorded.
C15_Witness ==
    /\ alTask.pc = "sleep"
    /\ Len(alTask.alerts) = 2
    /\ alTask.raised = {alTask.alerts[1].id}
    /\ alTask.recorded = {alTask.alerts[2].id}

\* C16: when a cycle has ended, every alert it loaded whose condition held
\* and whose own evaluation and storage update did not raise has its trigger
\* in the trigger list and its last_triggered set, whatever happened to the
\* other alerts of the cycle.
C16_EveryTriggerRecorded ==
    alTask.pc \in {"sleep", "error_sleep"} =>
        \A id \in alTask.live \ (alTask.raised \cup alTask.failed) :
            /\ \E j \in 1..Len(triggeredAlerts) : triggeredAlerts[j].alert_id = id
            /\ \E j \in 1..Len(dbAlerts) :
                  dbAlerts[j].id = id /\ dbAlerts[j].last_triggered # NoTimestamp

\* C17: the trigger list never holds more than 100 events and always holds
\* the most recent ones in firing order: the last min(100, fired) of all the
\* triggers fired.
C17_RingBounded ==
    /\ Len(triggeredAlerts) <= MAX_TRIGGERED
    /\ Len(triggeredAlerts) = Min(MAX_TRIGGERED, Len(fired))
    /\ \A j \in 1..Len(triggeredAlerts) :
          triggeredAlerts[j] = fired[Len(fired) - Len(triggeredAlerts) + j]

\* More than 100 triggers have fired and the oldest have been evicted.
C17_Witness ==
    /\ Len(fired) = MAX_TRIGGERED + 2
    /\ Len(triggeredAlerts) = MAX_TRIGGERED
    /\ triggeredAlerts[1].n = 3

\* C18: get_recent_triggers(limit), for every limit >= 0, returns the
\* min(limit, size) most recent events, oldest first, and changes neither
\* the trigger list nor storage.
C18_RecentTriggers ==
    [][\A limit \in 0..MaxLimit : AlGetRecentTriggers(limit) =>
        /\ Len(apiResult'.value) = Min(limit, Len(triggeredAlerts))
        /\ \A j \in 1..Len(apiResult'.value) :
              apiResult'.value[j] =
                triggeredAlerts[Len(triggeredAlerts) - Len(apiResult'.value) + j]
        /\ UNCHANGED <<triggeredAlerts, dbVars>>]_vars

\* C19: an evaluation that reads a value triggers exactly when the value
\* stands in the alert's relation to the threshold: for == when they differ
\* by less than 0.0001, for >, <, >=, <= by the comparison itself, and for
\* any other condition never.
Meets(value, condition, threshold) ==
    \/ condition = "==" /\ value - threshold < EPSILON /\ threshold - value < EPSILON
    \/ condition = ">" /\ value > threshold
    \/ condition = "<" /\ value < threshold
    \/ condition = ">=" /\ ~(value < threshold)
    \/ condition = "<=" /\ ~(value > threshold)
C19_EpsilonEquality ==
    [][\A v \in Values :
        (alTask.pc = "evaluate" /\ AlEvaluate(FALSE, Value(v))) =>
            LET alert == alTask.alerts[alTask.idx]
            IN  (alTask'.pc = "update") <=> Meets(v, alert.condition, alert.threshold)]_vars

\* An alert with condition == and threshold 100.0 has fired on 100.00005.
C19_Witness ==
    \E j \in 1..Len(triggeredAlerts) :
        /\ triggeredAlerts[j].condition = "=="
        /\ triggeredAlerts[j].threshold = Threshold100
        /\ triggeredAlerts[j].value = Threshold100 + 5

\* C20: every call of an analytics function that has ended has returned to
\* its caller, with a result record or with a record carrying an error; no
\* call has ended with an exception, whatever storage answered; and a call
\* whose last storage read raised has returned the error record.
C20_AnalyticsNeverRaise ==
    (apiResult.call \in AnalyticsFunctions /\ apiResult.pc # "await") =>
        /\ apiResult.pc = "returned"
        /\ apiResult.value[1].kind \in {"result", "error"}
        /\ apiResult.reads[Len(apiResult.reads)].raised =>
               apiResult.value[1].kind = "error"

\* compute_spread_and_zscore has returned an error record after its fourth
\* storage read raised.
C20_Witness ==
    /\ apiResult.call = "compute_spread_and_zscore"
    /\ apiResult.pc = "returned"
    /\ Len(apiResult.reads) = 4
    /\ apiResult.reads[4].raised
    /\ apiResult.value[1].kind = "error"

\* C21: a call of compute_basic_stats in which storage answered every read
\* and the computation did not raise, with c candles, k ticks and window w,
\* has returned a result tagged computed_from_ohlc when c >= w (the ticks
\* were not read), a result tagged computed_from_ticks with timeframe
\* "tick" when c < w and k >= w, and the insufficient-data record when
\* c < w and k < w.
Answered(call) == \A i \in 1..Len(call.reads) : ~call.reads[i].raised
C21_GracefulDegradation ==
    (/\ apiResult.call = "compute_basic_stats"
     /\ apiResult.pc # "await"
     /\ Answered(apiResult)
     /\ apiResult.fails = "no") =>
        LET c == apiResult.reads[1].rows
            w == apiResult.arg
            ret == apiResult.value[1]
        IN  /\ apiResult.pc = "returned"
            /\ IF c >= w
               THEN /\ Len(apiResult.reads) = 1
                    /\ ret.kind = "result" /\ ret.stats = "computed_from_ohlc"
               ELSE /\ Len(apiResult.reads) = 2
                    /\ IF apiResult.reads[2].rows >= w
                       THEN /\ ret.kind = "result"
                            /\ ret.stats = "computed_from_ticks"
                            /\ ret.timeframe = "tick"
                       ELSE ret.kind = "error" /\ ret.error = "Insufficient data"

\* With 19 candles and 20 ticks and window 20 the call has returned the
\* result computed from ticks.
C21_Witness ==
    /\ apiResult.call = "compute_basic_stats"
    /\ apiResult.pc = "returned"
    /\ apiResult.arg = DefaultWindow
    /\ Len(apiResult.reads) = 2
    /\ apiResult.reads[1] = Rows(DefaultWindow - 1)
    /\ apiResult.reads[2] = Rows(DefaultWindow)
    /\ apiResult.value[1].stats = "computed_from_ticks"

\* C22: a call of compute_hedge_ratio to which storage answered n1 and n2
\* candles, m of them sharing a timestamp, has returned the
\* insufficient-data record when n1 < 10, n2 < 10 or m < 10, and otherwise
\* a record with hedge ratio, intercept and R-squared whose data_points is m.
SharedTimestamps(data1, data2) ==
    {data1[i].timestamp : i \in 1..Len(data1)} \cap {data2[i].timestamp : i \in 1..Len(data2)}
HedgeCallEnded ==
    /\ apiResult.call = "compute_hedge_ratio"
    /\ apiResult.pc # "await"
    /\ Answered(apiResult)
    /\ apiResult.fails = "no"
C22_HedgeRatioNeedsTen ==
    HedgeCallEnded =>
        LET data1 == apiResult.reads[1].data
            data2 == apiResult.reads[2].data
            m == Cardinality(SharedTimestamps(data1, data2))
            ret == apiResult.value[1]
        IN  IF Len(data1) < 10 \/ Len(data2) < 10 \/ m < 10
            THEN ret.kind = "error" /\ ret.error \in {"Insufficient data", "Insufficient aligned data"}
            ELSE ret.kind = "result" /\ ret.data_points = m

\* Two series of 11 candles each, 9 of them aligned: insufficient aligned
\* data.
C22_Witness ==
    /\ HedgeCallEnded
    /\ apiResult.reads[1].rows = 11 /\ apiResult.reads[2].rows = 11
    /\ Cardinality(SharedTimestamps(apiResult.reads[1].data, apiResult.reads[2].data)) = 9
    /\ apiResult.value[1].error = "Insufficient aligned data"

\* C26 as stated: the call answered with the aligned closes A = [10,12,14,16]
\* and B = [20,22,24,26] has returned a hedge ratio of about 0.5 with an
\* R-squared of about 1.0.
Closes(data) == [i \in 1..Len(data) |-> data[i].close]
Timestamps(data) == [i \in 1..Len(data) |-> data[i].timestamp]
Near(x, target) == Abs(x - target) <= 5
OnLine(data, base, step) ==
    \A i \in 1..Len(data) : data[i].close = base + step * data[i].timestamp
C26_RegressionAsStated ==
    (/\ HedgeCallEnded
     /\ Closes(apiResult.reads[1].data) = <<10, 12, 14, 16>>
     /\ Closes(apiResult.reads[2].data) = <<20, 22, 24, 26>>
     /\ Timestamps(apiResult.reads[1].data) = Timestamps(apiResult.reads[2].data)) =>
        /\ apiResult.value[1].kind = "result"
        /\ Near(apiResult.value[1].hedge_ratio, Milli \div 2)
        /\ Near(apiResult.value[1].r_squared, Milli)

\* C26, amended: the four-point series return the insufficient-data record;
\* continued to at least 10 aligned points, A = 10, 12, 14, ... and
\* B = 20, 22, 24, ... give a hedge ratio of about 1.0 (A = B - 10) with
\* R-squared about 1.0, and A with B = 20, 24, 28, ... gives a hedge ratio
\* of about 0.5 (A = 0.5 * B) with R-squared about 1.0.
C26_RegressionReproducible ==
    (HedgeCallEnded /\ OnLine(apiResult.reads[1].data, 10, 2)) =>
        LET ret == apiResult.value[1]
            data1 == apiResult.reads[1].data
            data2 == apiResult.reads[2].data
        IN  /\ (Len(data1) = 4 \/ Len(data2) = 4) => ret.kind = "error"
            /\ (ret.kind = "result" /\ OnLine(data2, 20, 2)) =>
                  /\ Near(ret.hedge_ratio, Milli)
                  /\ Near(ret.intercept, 0 - 10 * Milli)
                  /\ Near(ret.r_squared, Milli)
            /\ (ret.kind = "result" /\ OnLine(data2, 20, 4)) =>
                  /\ Near(ret.hedge_ratio, Milli \div 2)
                  /\ Near(ret.intercept, 0)
                  /\ Near(ret.r_squared, Milli)

\* Ten or more aligned candles with A = 0.5 * B have given hedge ratio 0.5.
C26_Witness ==
    /\ HedgeCallEnded
    /\ OnLine(apiResult.reads[1].data, 10, 2)
    /\ OnLine(apiResult.reads[2].data, 20, 4)
    /\ apiResult.value[1].kind = "result"
    /\ apiResult.value[1].hedge_ratio = Milli \div 2
    /\ apiResult.value[1].data_points >= 10

\* C23: a cycle that ended in its loop's except branch is followed by a next
\* cycle unless the component is stopped: the flush loop and the resampling
\* loop start a cycle that does not err, the evaluation loop loads the
\* alerts again, the connect loop connects again.  (A resampling task may
\* still be asleep when the clock of the run has no step left.)
RErred == \E i \in RTaskIds : rtasks[i].erred
RGoesOn ==
    \A i \in RTaskIds :
        \/ ~rtasks[i].erred \/ ~rsRunning \/ rtasks[i].cancel
        \/ rtasks[i].pc = "sleep" /\ clockSteps = MaxClock /\ now < rtasks[i].wakeAt
InBackoff == \E i \in TaskIds : tasks[i].pc = "backoff"
Reconnects ==
    \A i \in TaskIds : tasks[i].pc = "connecting" \/ ~wsRunning \/ tasks[i].cancel
C23_NoLoopStalled ==
    /\ batch.erred ~> (~batch.erred \/ ~mgrRunning \/ batch.cancel)
    /\ RErred ~> RGoesOn
    /\ (alTask.pc = "error_sleep") ~>
          (alTask.pc = "load" \/ ~alRunning \/ alTask.cancel)
    /\ InBackoff ~> Reconnects

\* The resampling loop sleeps after a cycle that failed.
C23_Witness ==
    /\ rsRunning
    /\ \E i \in RTaskIds : rtasks[i].erred /\ rtasks[i].pc = "sleep"

\* C24 as stated: get_recent_ticks(instrument, count) returns the count most
\* recently pushed ticks most recent first: the tick pushed last is the
\* first element of the result.
CacheReads(sym, count) == redisEnabled /\ CacheGetRecentTicks(sym, count, TRUE)
C24_MostRecentFirst ==
    [][\A sym \in AllSymbols, count \in 1..MaxCount : CacheReads(sym, count) =>
        /\ Len(apiResult'.value) = Min(count, Len(cacheTicks[sym]))
        /\ \A j \in 1..Len(apiResult'.value) : apiResult'.value[j] = cacheTicks[sym][j]]_vars

\* C24, amended: the count most recently pushed ticks are returned in the
\* order they were pushed, the tick pushed last being the last element; a
\* read without a cache, or one that fails, returns the empty list.
C24_RecentTicksOldestFirst ==
    [][\A sym \in AllSymbols, count \in 1..MaxCount, ok \in BOOLEAN :
        CacheGetRecentTicks(sym, count, ok) =>
            LET value == apiResult'.value
                held == cacheTicks[sym]
            IN  IF redisEnabled /\ ok
                THEN /\ Len(value) = Min(count, Len(held))
                     /\ \A j \in 1..Len(value) : value[j] = held[Len(value) - j + 1]
                     /\ \A j \in 1..Len(value), k \in 1..Len(value) :
                           j < k => value[j].seq < value[k].seq
                     /\ value # <<>> => value[Len(value)] = held[1]
                ELSE value = <<>>]_vars

\* A read has returned two ticks, the one pushed first in front.
C24_Witness ==
    /\ apiResult.call = "get_recent_ticks"
    /\ Len(apiResult.value) = 2
    /\ apiResult.value[1].seq < apiResult.value[2].seq
    /\ apiResult.value[2] = cacheTicks[apiResult.symbol][1]

\* C25: the timestamp of a normalized tick is the vendor's trade time T read
\* as UTC, whatever the host's time zone: a tick received at the UTC instant
\* now, which is its T, carries the timestamp now.
Accepts(i) == wsRunning /\ RecvTrade(i, BasePrice)
BufferedTicks(buf) ==
    UNION {{buf[j].ticks[k] : k \in 1..Len(buf[j].ticks)} : j \in 1..Len(buf)}
C25_TimestampIsUtc ==
    [][\A i \in TaskIds : Accepts(i) =>
          \E tick \in BufferedTicks(tickBuffer') :
              tick.seq = delivered' /\ tick.timestamp = now]_vars

\* C27: the periods-per-year constant of compute_volatility is 365*24*60
\* for every timeframe finer than an hour (seconds and minutes) and 365*24
\* for every other timeframe.
SubHour(timeframe) == EndsWith(timeframe, "s") \/ EndsWith(timeframe, "m")
VolatilityReturned ==
    /\ apiResult.call = "compute_volatility"
    /\ apiResult.pc = "returned"
    /\ apiResult.value[1].kind = "result"
C27_PeriodsPerYear ==
    VolatilityReturned =>
        apiResult.value[1].periods_per_year =
            IF SubHour(apiResult.value[1].timeframe) THEN 365 * 24 * 60 ELSE 365 * 24

\* C30 as stated: for each instrument the delay slept is 1 after the first
\* failure and doubles with each further failure up to 60; only a received
\* message resets it, so a connection that opens and drops before any
\* message counts as one more failure in the row.
RECURSIVE Doubled(_)
Doubled(k) == IF k = 0 THEN INITIAL_RECONNECT_DELAY
              ELSE Min(2 * Doubled(k - 1), MAX_RECONNECT_DELAY)
StartsSleep(i) == i <= Len(tasks') /\ tasks[i].pc # "backoff" /\ tasks'[i].pc = "backoff"
LastSlept(i) == tasks'[i].slept[Len(tasks'[i].slept)]
C30_ResetOnMessage ==
    [][\A i \in TaskIds : StartsSleep(i) => LastSlept(i) = Doubled(tasks[i].failed)]_vars

\* C30, amended: the delay slept is 1 after the first failure that follows a
\* successful connection (or the start of the task) and doubles with each
\* further failure up to 60; opening a connection resets the delay to 1,
\* whether or not a message is received on it.
C30_ResetOnConnect ==
    [][\A i \in TaskIds :
        /\ StartsSleep(i) => LastSlept(i) = Doubled(Len(tasks[i].slept))
        /\ ConnectOk(i) => tasks'[i].delay = INITIAL_RECONNECT_DELAY
        /\ (StartsSleep(i) /\ tasks[i].received) => LastSlept(i) = INITIAL_RECONNECT_DELAY]_vars

\* An instrument sleeps 1 after a connection that opened and dropped without
\* a message, its second failure in a row, while the other has slept 60
\* after seven refused connections.
C30_Witness ==
    \E i, j \in TaskIds :
        /\ tasks[i].pc = "backoff"
        /\ tasks[i].failed = 2
        /\ tasks[i].slept = <<INITIAL_RECONNECT_DELAY>>
        /\ Len(tasks[j].slept) >= 7
        /\ tasks[j].slept[7] = MAX_RECONNECT_DELAY

\* C28: while the client is running the task of an instrument only moves
\* from Connecting to Streaming, from there (or from a connection attempt
\* that fails) on an error or a close by the server to Backoff, and from
\* Backoff to Connecting; it reaches Stopped only once stop() has been
\* called; and a task in Backoff of a running client returns to Connecting.
Phase(task) ==
    CASE task.pc \in {"new", "connecting"} -> "Connecting"
      [] task.pc \in {"streaming", "callback"} -> "Streaming"
      [] task.pc = "backoff" -> "Backoff"
      [] task.pc = "done" -> "Stopped"
Moves ==
    {<<"Connecting", "Streaming">>, <<"Streaming", "Backoff">>,
     <<"Connecting", "Backoff">>, <<"Backoff", "Connecting">>}
PhaseIs(i, phase) == \E j \in TaskIds : j = i /\ Phase(tasks[j]) = phase
C28_ConnectionStateMachine ==
    /\ [][\A i \in TaskIds :
            /\ (wsRunning /\ wsRunning' /\ Phase(tasks'[i]) # Phase(tasks[i]))
                  => <<Phase(tasks[i]), Phase(tasks'[i])>> \in Moves
            /\ (Phase(tasks'[i]) = "Stopped" /\ Phase(tasks[i]) # "Stopped")
                  => (~wsRunning /\ mgrStop.caller = "client")]_vars
    /\ \A i \in 1..Len(symbols_list) :
          (wsRunning /\ PhaseIs(i, "Backoff")) ~> (~wsRunning \/ PhaseIs(i, "Connecting"))

\* One task streams again after a failure and a backoff while the other,
\* stopped with the client, has finished.
C28_Witness ==
    \E i, j \in TaskIds :
        /\ tasks[i].pc = "streaming"
        /\ tasks[i].failed >= 1
        /\ tasks[j].pc = "done"
        /\ ~wsRunning

\* C29: a price alert takes its value from the latest tick in the cache or,
\* when the cache is disabled, unreachable or empty for the instrument, from
\* the latest tick in storage: an alert whose condition the latest stored
\* price satisfies triggers without a cache.
StoredTicks(sym) == SelectSeq(dbTicks, LAMBDA t : t.symbol = sym)
LatestPrice(sym) ==
    LET cached == GetRecentTicks(sym, 1)
        stored == StoredTicks(sym)
    IN  IF cached # <<>> THEN Value(cached[Len(cached)].price * Scale)
        ELSE IF stored # <<>> THEN Value(stored[Len(stored)].price * Scale)
        ELSE NoValue
Evaluated == alTask.alerts[alTask.idx]
C29_PriceFromStorage ==
    [][(/\ alTask.pc = "evaluate"
        /\ Evaluated.metric = "price"
        /\ AlEvaluate(FALSE, NoValue)
        /\ LatestPrice(Evaluated.symbol).has
        /\ EvaluateCondition(LatestPrice(Evaluated.symbol).v,
                             Evaluated.condition, Evaluated.threshold))
       => /\ alTask'.pc = "update"
          /\ alTask'.trigger.value = LatestPrice(Evaluated.symbol).v]_vars

\* C31: across start(), stop() and repeated start() of the resampling
\* engine at most one resampling task is alive per (instrument, timeframe)
\* key, so no two upserts of the same (instrument, timeframe, bucket) are in
\* flight at the same time.
LiveRTasks(key) == {i \in RTaskIds : RKey(i) = key /\ rtasks[i].pc # "done"}
Upserting(key) == {i \in RTaskIds : RKey(i) = key /\ rtasks[i].pc = "write"}
C31_SingleWriter ==
    \A key \in Keys :
        /\ Cardinality(LiveRTasks(key)) <= 1
        /\ Cardinality(Upserting(key)) <= 1

\* The task of a restarted engine upserts while the task of the first start,
\* of the same key, has finished, the engine having been started three times.
C31_Witness ==
    \E i, j \in RTaskIds :
        /\ i < j
        /\ RKey(i) = RKey(j)
        /\ rtasks[i].pc = "done"
        /\ rtasks[j].pc = "write"
        /\ Len(rtasks) = MaxRTasks

\* C32: every tick handed to the tick callback, and so every tick in the
\* buffer, in the cache and in storage, has a price above zero and a size
\* of at least zero, whatever numerals the vendor sends.
ValidTick(tick) == tick.price > 0 /\ tick.size >= 0
C32_TicksValid ==
    /\ \A tick \in BufferedTicks(tickBuffer) : ValidTick(tick)
    /\ \A sym \in AllSymbols : \A j \in 1..Len(cacheTicks[sym]) : ValidTick(cacheTicks[sym][j])
    /\ \A j \in 1..Len(dbTicks) : ValidTick(dbTicks[j])

\* C33: after any sequence of start, add_symbol, remove_symbol and stop no
\* instrument has two connection tasks alive at the same time, so that no
\* vendor trade reaches the callback over two connections.
LiveTasks(sym) == {i \in TaskIds : tasks[i].symbol = sym /\ tasks[i].pc # "done"}
C33_OneTaskPerInstrument ==
    \A sym \in AllSymbols : Cardinality(LiveTasks(sym)) <= 1

\* C34: no candle is persisted for a bucket without ticks: every candle in
\* storage has trade_count >= 1 and defined values with low <= open <= high
\* and low <= close <= high, also when a complete bucket without a trade
\* lies between buckets that have trades.
WellFormedCandle(r) ==
    /\ r.trade_count >= 1
    /\ NaN \notin {r.open, r.high, r.low, r.close}
    /\ r.low <= r.open /\ r.open <= r.high
    /\ r.low <= r.close /\ r.close <= r.high
Ingested(r) ==
    {t \in Range(dbTicks) \cup BufferedTicks(tickBuffer) \cup Range(cacheTicks[r.symbol]) :
        /\ t.symbol = r.symbol
        /\ r.timestamp <= t.timestamp
        /\ t.timestamp < r.timestamp + ParseTimeframe(r.timeframe)}
FirstOf(ticks) == CHOOSE t \in ticks : \A u \in ticks : t.seq <= u.seq
LastOf(ticks) == CHOOSE t \in ticks : \A u \in ticks : u.seq <= t.seq
SizeSum(ticks) ==
    IF ticks = {} THEN 0
    ELSE LET lo == FirstOf(ticks).seq
             hi == LastOf(ticks).seq
             SizeAt(q) == IF \E t \in ticks : t.seq = q
                          THEN (CHOOSE t \in ticks : t.seq = q).size ELSE 0
         IN  SeqSum([k \in 1..(hi - lo + 1) |-> SizeAt(lo + k - 1)])
C35_WholeBucket ==
    \A a \in 1..Len(dbOhlc) :
        LET r == dbOhlc[a]
        IN  /\ r.trade_count = Cardinality(Ingested(r))
            /\ r.open = FirstOf(Ingested(r)).price
            /\ r.close = LastOf(Ingested(r)).price
            /\ r.volume = SizeSum(Ingested(r))

\* C36: the last-persisted-bucket tracker of a key changes only in the step
\* in which the upsert of that bucket succeeds; an upsert that raises leaves
\* it unchanged, and a cycle whose latest complete bucket has not been
\* persisted by this process attempts the upsert.
LatestComplete(i) ==
    LET complete == CompleteLabels(FetchTicks(rtasks[i].symbol, TRUE), rtasks[i].timeframe)
    IN  CHOOSE b \in complete : \A c \in complete : c <= b
C36_TrackerAfterUpsert ==
    [][/\ \A key \in Keys : currentCandles'[key] # currentCandles[key] =>
              \E i \in RTaskIds :
                  /\ RKey(i) = key
                  /\ RsWriteOk(i)
                  /\ currentCandles'[key] = rtasks[i].data.timestamp
                  /\ HasRow(dbOhlc', rtasks[i].data)
       /\ \A i \in RTaskIds : RsWriteFail(i) => currentCandles' = currentCandles
       /\ \A i \in RTaskIds :
              (/\ rsRunning
               /\ RsCycle(i, TRUE, TRUE)
               /\ FetchTicks(rtasks[i].symbol, TRUE) # <<>>
               /\ CompleteLabels(FetchTicks(rtasks[i].symbol, TRUE), rtasks[i].timeframe) # {}
               /\ LatestComplete(i) \notin Range(written[RKey(i)]))
              => (rtasks'[i].pc = "write" /\ rtasks'[i].data.timestamp = LatestComplete(i))]_vars

\* An upsert of a bucket with trades has raised: nothing is stored, the
\* tracker is empty and the task sleeps until its next cycle.
C36_Witness ==
    /\ faults = 1
    /\ dbOhlc = <<>>
    /\ \E i \in RTaskIds :
          /\ rtasks[i].pc = "sleep"
          /\ rtasks[i].erred
          /\ currentCandles[RKey(i)] = NoTimestamp
          /\ CompleteLabels(FetchTicks(rtasks[i].symbol, TRUE), rtasks[i].timeframe) # {}

\* C37: while the resampling engine runs, every instrument in the manager's
\* tracked list, instruments added at run time included, has a resampling
\* task for every configured timeframe.
Resampled(sym, timeframe) ==
    \E i \in RTaskIds : /\ rtasks[i].symbol = sym
                         /\ rtasks[i].timeframe = timeframe
                         /\ rtasks[i].pc # "done"
C37_EveryTrackedResampled ==
    (rsRunning /\ mgrRunning) =>
        \A sym \in Range(mgrSymbols), timeframe \in Range(intervalsCfg) :
            Resampled(sym, timeframe)

\* ------------------------------------------- analytics while candles arrive
\* Database.get_ohlc(symbol, timeframe, start_time, end_time, limit): the
\* newest limit rows of the window, newest first.
GetOhlc(sym, timeframe, start_time, end_time, limit) ==
    LET hit == SelectSeq(dbOhlc, LAMBDA r : /\ r.symbol = sym
                                            /\ r.timeframe = timeframe
                                            /\ r.timestamp >= start_time
                                            /\ r.timestamp <= end_time)
        desc == Reverse(SortByTimestamp(hit))
    IN  SubSeq(desc, 1, Min(limit, Len(desc)))

\* GET /analytics/spread: compute_spread_and_zscore(symbol1, symbol2,
\* timeframe, lookback, window) runs to its first storage read.
SpreadCall(symbol1, symbol2, timeframe, lookback, window, fails) ==
    /\ ~AnalyticsInFlight
    /\ apiResult' = [call |-> "compute_spread_and_zscore", arg |-> window, value |-> <<>>,
                     reads |-> <<>>, aligned |-> 0, fails |-> fails, pc |-> "await",
                     symbol1 |-> symbol1, symbol2 |-> symbol2, timeframe |-> timeframe,
                     lookback |-> lookback]
    /\ UNCHANGED <<envVars, progVars, sinceFlush, retained, written, idleStops, fired>>

\* Storage answers the read the call waits for from the OHLC table as it is
\* now: the first and third read are of symbol1, the second and fourth of
\* symbol2, each over the last 24 hours.
AnReadOhlc ==
    /\ AnalyticsInFlight
    /\ "lookback" \in DOMAIN apiResult
    /\ AnRead(Candles(GetOhlc(IF Len(apiResult.reads) % 2 = 0 THEN apiResult.symbol1
                                                              ELSE apiResult.symbol2,
                              apiResult.timeframe, now - SecondsPerDay, now,
                              apiResult.lookback)))

\* What an earlier run left behind: candles of the last MIN_POINTS seconds
\* before the bucket LastBucket for both instruments, the candle of
\* LastBucket for the second instrument only, and in the cache the trade of
\* the first instrument that falls into LastBucket.
LastBucket == StartNow - 1
StoredCandle(sym, timestamp, close) ==
    [symbol |-> sym, timeframe |-> RESAMPLE_INTERVALS[1], timestamp |-> timestamp,
     open |-> close, high |-> close, low |-> close, close |-> close,
     volume |-> 1, trade_count |-> 1]
StoredCandles ==
    [k \in 1..MIN_POINTS |->
        StoredCandle(symbols_list[1], LastBucket - MIN_POINTS - 1 + k, BasePrice + k)]
    \o [k \in 1..(MIN_POINTS + 1) |->
        StoredCandle(symbols_list[2], LastBucket - MIN_POINTS - 1 + k, 20 + 3 * k - (k % 2))]
LastTrade ==
    << [symbol |-> symbols_list[1], timestamp |-> LastBucket, price |-> BasePrice + 5,
        size |-> 1, seq |-> 0] >>
InitPairs ==
    InitStored(<<symbols_list[1]>>, SubSeq(RESAMPLE_INTERVALS, 1, 1), {TRUE}, DefaultLimits,
               {0}, LastTrade, StoredCandles)
NextPairs ==
    \/ \E window \in {MIN_WINDOW, DefaultWindow}, fails \in Fails :
          SpreadCall(symbols_list[1], symbols_list[2], RESAMPLE_INTERVALS[1],
                     DefaultLookback, window, fails)
    \/ AnReadOhlc
    \/ AnRead(StorageRaises)
    \/ RsStart(symbolsCfg)
    \/ \E i \in RTaskIds : RsCycle(i, TRUE, TRUE)
    \/ \E i \in RTaskIds : RsWriteOk(i)
SpecPairs == InitPairs /\ [][NextPairs]_vars

\* C38: the spread and z-score compute_spread_and_zscore returns are
\* computed over exactly the aligned candle series its hedge ratio was
\* fitted on, also when a candle is upserted between the reads of one call.
SpreadReturned ==
    /\ apiResult.call = "compute_spread_and_zscore"
    /\ apiResult.pc = "returned"
    /\ apiResult.value[1].kind = "result"
AlignedSeries(i, j) == MergeOnTimestamp(apiResult.reads[i].data, apiResult.reads[j].data)
C38_OneAlignedSeries ==
    SpreadReturned => AlignedSeries(3, 4) = AlignedSeries(1, 2)

\* --------------------------------------------- cycles that run late
\* One instrument is ingested and resampled at the first timeframe with
\* storage and cache available; the engine is not stopped.  The event loop
\* runs a task that can run, upserts return and time passes.
\* The upsert of a candle storage cannot hold (an empty bin) raises.
RsWriteRejected(i) ==
    /\ rtasks[i].pc = "write"
    /\ InsertOhlcRaises(dbOhlc, rtasks[i].data)
    /\ RsWriteFail(i)
NextSkips ==
    \/ MgrStart
    \/ \E i \in TaskIds : TaskStart(i)
    \/ \E i \in TaskIds : ConnectOk(i)
    \/ \E i \in TaskIds : RecvTrade(i, BasePrice)
    \/ \E i \in TaskIds : CallbackDone(i, TRUE)
    \/ \E d \in ClockSteps : ClockAdvance(d)
    \/ RsStart(symbolsCfg)
    \/ \E i \in RTaskIds : RsCycle(i, TRUE, TRUE)
    \/ \E i \in RTaskIds : RsWriteOk(i)
    \/ \E i \in RTaskIds : RsWriteRejected(i)
FairSkips ==
    /\ \A i \in 1..MaxRTasks : WF_vars(i \in RTaskIds /\ RsCycle(i, TRUE, TRUE))
    /\ \A i \in 1..MaxRTasks : WF_vars(i \in RTaskIds /\ RsWriteOk(i))
    /\ \A i \in 1..MaxRTasks : WF_vars(i \in RTaskIds /\ RsWriteRejected(i))
    /\ WF_vars(\E d \in ClockSteps : ClockAdvance(d))
SpecSkips == InitOneTimeframe /\ [][NextSkips]_vars /\ FairSkips

\* C39: for a running (instrument, timeframe) task with storage available,
\* every bucket that holds an ingested tick is eventually persisted as a
\* candle after it completes, however late the cycles run.
Buckets == StartNow..(StartNow + MaxClock)
\* The bucket b of the key holds a tick the cycles read, it is complete, and
\* the key's task has a cycle ahead that the clock lets it run.
BucketDue(key, b) ==
    /\ rsRunning
    /\ \E t \in Range(GetRecentTicks(key[1], RESAMPLE_TICK_COUNT)) :
          GetCandleTimestamp(t.timestamp, key[2]) = b
    /\ b < GetCandleTimestamp(now, key[2])
    /\ \E i \in 1..MaxRTasks :
          /\ i \in RTaskIds
          /\ RKey(i) = key
          /\ ~rtasks[i].cancel
          /\ \/ rtasks[i].pc = "new"
             \/ rtasks[i].pc = "sleep" /\ rtasks[i].wakeAt <= now
BucketPersisted(key, b) ==
    \E a \in 1..Len(dbOhlc) : /\ dbOhlc[a].symbol = key[1]
                              /\ dbOhlc[a].timeframe = key[2]
                              /\ dbOhlc[a].timestamp = b
C39_NoBucketSkipped ==
    \A b \in Buckets :
        BucketDue(<<symbols_list[1], RESAMPLE_INTERVALS[1]>>, b)
            ~> BucketPersisted(<<symbols_list[1], RESAMPLE_INTERVALS[1]>>, b)

\* ----------------------------------------------------------- status reads
\* BinanceWebSocketClient.get_connected_symbols: list(self.connections.keys()),
\* held as the set of its elements.
GetConnectedSymbols == {s \in AllSymbols : connections[s] # 0}

\* IngestionManager.get_status, called by GET /status.
MgrGetStatus ==
    /\ apiResult' = [call |-> "get_status", arg |-> 0,
                     value |-> <<[running |-> mgrRunning,
                                  symbols |-> mgrSymbols,
                                  connected_symbols |-> GetConnectedSymbols,
                                  buffered_ticks |-> Len(AllTicks(tickBuffer))]>>]
    /\ UNCHANGED <<envVars, progVars, sinceFlush, retained, written, idleStops, fired>>

\* One instrument is configured; instruments are added and removed while
\* connections are made, fail and end, and the status is read at any time.
NextStatus ==
    \/ MgrStart
    \/ \E i \in TaskIds : TaskStart(i)
    \/ \E i \in TaskIds : ConnectOk(i)
    \/ \E i \in TaskIds : ConnectFail(i)
    \/ \E i \in TaskIds : RecvTrade(i, BasePrice)
    \/ \E i \in TaskIds : CallbackDone(i, TRUE)
    \/ \E i \in TaskIds : StreamEnd(i)
    \/ \E i \in TaskIds : BackoffDone(i)
    \/ \E symbol \in AllSymbols : MgrAddSymbol(symbol)
    \/ \E symbol \in AllSymbols : MgrRemoveSymbol(symbol)
    \/ MgrGetStatus
SpecStatus == InitOne /\ [][NextStatus]_vars

\* C40: the connected instruments get_status() reports are among the tracked
\* instruments it reports, after any adds, removals, connection successes
\* and failures; and get_status() changes no state of the manager or of the
\* stream client.
StatusReported == apiResult.call = "get_status"
C40_StatusSnapshot ==
    /\ [](StatusReported =>
            apiResult.value[1].connected_symbols \subseteq Range(apiResult.value[1].symbols))
    /\ [][MgrGetStatus => UNCHANGED <<wsVars, mgrVars>>]_vars
====
